---- MODULE Spec2Model ----
(***************************************************************************)
(* yamlcmt: the diff engine (internal/diff), the value comparator and the  *)
(* identity resolver (internal/parser) as they are called from             *)
(* cmd/yamlcmt/main.go and internal/github/github.go.                      *)
(*                                                                         *)
(* Strings are sequences of one-character strings, so that formatting      *)
(* ("%s (from %s)"), splitting on "." and byte-wise ordering are computed  *)
(* and not assumed. Decoded YAML values are tagged records.                *)
(***************************************************************************)
EXTENDS Integers, Sequences, FiniteSets, TLC

VARIABLES
    oldDocs,    \* docs1 of CompareCmd.Run: the old document sequence
    newDocs,    \* docs2 of CompareCmd.Run: the new document sequence
    result,     \* the Result of engine.Compare(oldDocs, newDocs)
    swapped,    \* the Result of engine.Compare(newDocs, oldDocs)
    pc,         \* parsed, compared (Compare returned), swapped (so did
                \* the call on the exchanged sequences)
    vOld,       \* old argument of parser.CompareValues
    vNew,       \* new argument of parser.CompareValues
    diffs,      \* the differences CompareValues(vOld, vNew) returned
    vDone,      \* whether CompareValues has returned
    cfg,        \* the configuration config.LoadConfig returned
    outputs,    \* what each rendering of result produced, in call order
    labels,     \* the labels handed to the GitHub API
    opts,       \* the CompareCmd: the command line's flags and arguments
    files,      \* targetFiles of the git-compare mode
    world,      \* per file: its content at the branch and in the work tree
    token,      \* the GITHUB_TOKEN environment variable
    stdout,     \* what the run has printed to the standard output
    comments,   \* the comments posted to the pull request
    calls,      \* the GitHub API calls made, answered or not
    err,        \* the error Run returned, "" for none
    exit,       \* the exit status, once pc is "exited"
    rawContent, \* the bytes handed to cleanYAMLContent
    cleaned,    \* the bytes cleanYAMLContent returned
    output,     \* what `git diff --name-only` gave: its bytes, or a failure
    disk,       \* the names of the files in the work tree
    yamlFiles,  \* the file names GetChangedYAMLFiles returned
    tmpOld,     \* the temporary file of the old versions: created, open,
                \* exists, and the writes made to it
    tmpNew,     \* the temporary file of the current versions
    fileIndex,  \* the file CombineFilesForComparison's loop is at
    pipe,       \* the writes the pipe of the verbose capture holds
    pending,    \* the writes Print(true) has still to make
    detailsBuf  \* what was read from the pipe

engineVars == <<oldDocs, newDocs, result, swapped, pc>>
valueVars == <<vOld, vNew, diffs, vDone>>
reportVars == <<cfg, outputs, labels>>
inputVars == <<opts, files, world, token>>
runVars == <<stdout, comments, calls, err, exit>>
gitVars == <<rawContent, cleaned, output, disk, yamlFiles, tmpOld, tmpNew, fileIndex>>
pipeVars == <<pipe, pending, detailsBuf>>

vars == <<engineVars, valueVars, reportVars, inputVars, runVars, gitVars, pipeVars>>

(***************************************************************************)
(* Bounds.                                                                 *)
(***************************************************************************)
\* The longest document sequence handed to Compare.
MaxDocs == 2
\* The largest decoded value handed to CompareValues, counted in nodes
\* (a scalar, a sequence or a map is one node, plus its elements).
MaxNodes == 3
\* The most lines of a content handed to cleanYAMLContent.
MaxLines == 3
\* The most files `git diff --name-only` lists.
MaxListed == 2
\* The writes a pipe holds before a write to it blocks (a pipe holds 65536
\* bytes; the model counts the writes of Print, one per line).
PipeCapacity == 2

(***************************************************************************)
(* Strings.                                                                *)
(***************************************************************************)
\* The characters the model uses, in byte order (Go compares strings
\* byte-wise, and so does sort.Strings).
Alphabet ==
    << " ", "(", ")", "+", ",", "-", ".", "/", "0", "1", "2", "3", "4", "5",
       "6", "7", "8", "9", ":", "P", "[", "]", "_", "a", "b", "c", "d", "e",
       "f", "g", "h", "i", "j", "k", "l", "m", "n", "o", "p", "q", "r", "s",
       "t", "u", "v", "w", "x", "y", "z", "~" >>

Ord(c) == CHOOSE i \in 1..Len(Alphabet) : Alphabet[i] = c

\* s < t for Go strings: the first differing byte decides, a proper prefix
\* is smaller.
RECURSIVE StrLess(_, _)
StrLess(s, t) ==
    IF t = <<>> THEN FALSE
    ELSE IF s = <<>> THEN TRUE
    ELSE IF Head(s) = Head(t) THEN StrLess(Tail(s), Tail(t))
    ELSE Ord(Head(s)) < Ord(Head(t))

\* The elements of a finite set of strings in ascending order.
RECURSIVE SortStrings(_)
SortStrings(set) ==
    IF set = {} THEN <<>>
    ELSE LET least == CHOOSE s \in set : \A t \in set \ {s} : StrLess(s, t)
         IN  <<least>> \o SortStrings(set \ {least})

\* strings.Split(s, sep) for a one-character separator.
RECURSIVE SplitFrom(_, _, _)
SplitFrom(s, sep, cur) ==
    IF s = <<>> THEN <<cur>>
    ELSE IF Head(s) = sep THEN <<cur>> \o SplitFrom(Tail(s), sep, <<>>)
    ELSE SplitFrom(Tail(s), sep, Append(cur, Head(s)))

Split(s, sep) == SplitFrom(s, sep, <<>>)

\* bytes.Join(parts, sep)
RECURSIVE Join(_, _)
Join(parts, sep) ==
    IF parts = <<>> THEN <<>>
    ELSE IF Len(parts) = 1 THEN parts[1]
    ELSE parts[1] \o <<sep>> \o Join(Tail(parts), sep)

\* The white space bytes.TrimSpace removes.
WhiteSpace == {" ", "\t", "\n", "\r"}

RECURSIVE TrimLeft(_)
TrimLeft(s) ==
    IF s # <<>> /\ Head(s) \in WhiteSpace THEN TrimLeft(Tail(s)) ELSE s

RECURSIVE TrimRight(_)
TrimRight(s) ==
    IF s # <<>> /\ s[Len(s)] \in WhiteSpace
    THEN TrimRight(SubSeq(s, 1, Len(s) - 1)) ELSE s

\* bytes.TrimSpace(s)
TrimSpace(s) == TrimRight(TrimLeft(s))

\* bytes.HasPrefix(s, prefix), bytes.HasSuffix(s, suffix)
HasPrefix(s, prefix) ==
    Len(s) >= Len(prefix) /\ SubSeq(s, 1, Len(prefix)) = prefix
HasSuffix(s, suffix) ==
    Len(s) >= Len(suffix) /\ SubSeq(s, Len(s) - Len(suffix) + 1, Len(s)) = suffix

\* The decimal digits of a natural number (fmt's %d).
RECURSIVE Itoa(_)
Itoa(n) ==
    IF n < 10 THEN <<Alphabet[Ord("0") + n]>>
    ELSE Itoa(n \div 10) \o <<Alphabet[Ord("0") + (n % 10)]>>

(***************************************************************************)
(* Decoded YAML values: scalars, ordered sequences, maps with string keys. *)
(***************************************************************************)
IntVal(n) == [t |-> "int", i |-> n]
StrVal(s) == [t |-> "str", s |-> s]
SeqVal(e) == [t |-> "seq", e |-> e]
MapVal(m) == [t |-> "map", m |-> m]

IsMap(v) == v.t = "map"
IsSeq(v) == v.t = "seq"
IsScalar(v) == v.t \in {"int", "str"}

\* What fmt prints for a scalar: the string itself, the digits of a number.
FormatScalar(v) == IF v.t = "str" THEN v.s ELSE Itoa(v.i)

(***************************************************************************)
(* Value Comparator: parser.CompareValues.                                 *)
(***************************************************************************)
\* One step of a Difference's path: a map key or a sequence index.
KeyStep(k) == [key |-> k]
IndexStep(i) == [index |-> i]

\* The value a Difference carries on the side where the key does not exist.
Absent == [t |-> "absent"]

Difference(path, kind, oldValue, newValue) ==
    [path |-> path, kind |-> kind, oldValue |-> oldValue, newValue |-> newValue]

\* Equality of two scalars, as a formatted comparison would decide it.
ScalarEqualFormatted(a, b) == FormatScalar(a) = FormatScalar(b)

\* Equality of two scalars: the same type and the same value.
ScalarEqual(a, b) ==
    /\ a.t = b.t
    /\ IF a.t = "str" THEN a.s = b.s ELSE a.i = b.i

\* Keys visited old-map first, then the keys only the new map has.
MapKeyOrderOldFirst(oldMap, newMap) ==
    SortStrings(DOMAIN oldMap) \o SortStrings(DOMAIN newMap \ DOMAIN oldMap)

\* The order in which the keys of two maps are visited: the union of the
\* keys, ascending.
MapKeyOrder(oldMap, newMap) == SortStrings(DOMAIN oldMap \cup DOMAIN newMap)

\* Two values of different kinds, reported with the removed subtree's keys.
KindMismatchWithSubtree(old, new, path) ==
    <<Difference(path, "value-changed", old, new)>>
    \o (IF IsMap(old)
        THEN LET keys == SortStrings(DOMAIN old.m)
             IN  [j \in 1..Len(keys) |->
                    Difference(Append(path, KeyStep(keys[j])), "key-removed",
                               old.m[keys[j]], Absent)]
        ELSE <<>>)
    \o (IF IsSeq(old)
        THEN [j \in 1..Len(old.e) |->
                Difference(Append(path, IndexStep(j - 1)), "key-removed",
                           old.e[j], Absent)]
        ELSE <<>>)

\* Two values of different kinds: the whole subtree counts as replaced.
KindMismatch(old, new, path) == <<Difference(path, "value-changed", old, new)>>

\* The length difference of two sequences: one Difference carrying both
\* lengths, none when the lengths agree.
SeqLengthDiff(old, new, path) ==
    IF Len(old.e) # Len(new.e)
    THEN <<Difference(path, "array-length-changed",
                      IntVal(Len(old.e)), IntVal(Len(new.e)))>>
    ELSE <<>>

\* The number of leading elements compared, when a length difference ends
\* the comparison of two sequences.
OverlapNoneOnLengthChange(old, new) ==
    IF Len(old.e) # Len(new.e) THEN 0
    ELSE Len(old.e)

\* The number of leading elements of two sequences that are compared.
Overlap(old, new) ==
    IF Len(old.e) < Len(new.e) THEN Len(old.e) ELSE Len(new.e)

RECURSIVE CompareValues(_, _, _)
RECURSIVE CompareMapKeys(_, _, _, _)
RECURSIVE CompareElements(_, _, _, _, _)

\* The keys of two maps, in the given order: removed, added, or compared.
CompareMapKeys(oldMap, newMap, path, keys) ==
    IF keys = <<>> THEN <<>>
    ELSE LET k == Head(keys)
             here == Append(path, KeyStep(k))
             first ==
                 IF k \notin DOMAIN newMap
                 THEN <<Difference(here, "key-removed", oldMap[k], Absent)>>
                 ELSE IF k \notin DOMAIN oldMap
                 THEN <<Difference(here, "key-added", Absent, newMap[k])>>
                 ELSE CompareValues(oldMap[k], newMap[k], here)
         IN  first \o CompareMapKeys(oldMap, newMap, path, Tail(keys))

\* Elements j..n of two sequences, index by index (indices count from 0).
CompareElements(oldElems, newElems, path, j, n) ==
    IF j > n THEN <<>>
    ELSE CompareValues(oldElems[j], newElems[j], Append(path, IndexStep(j - 1)))
         \o CompareElements(oldElems, newElems, path, j + 1, n)

CompareValues(old, new, path) ==
    IF IsMap(old) /\ IsMap(new)
    THEN CompareMapKeys(old.m, new.m, path, MapKeyOrder(old.m, new.m))
    ELSE IF IsSeq(old) /\ IsSeq(new)
    THEN SeqLengthDiff(old, new, path)
         \o CompareElements(old.e, new.e, path, 1, Overlap(old, new))
    ELSE IF IsScalar(old) /\ IsScalar(new)
    THEN IF ScalarEqual(old, new) THEN <<>>
         ELSE <<Difference(path, "value-changed", old, new)>>
    ELSE KindMismatch(old, new, path)

(***************************************************************************)
(* The values the comparator is run on: every value of at most MaxNodes    *)
(* nodes over these scalars and keys.                                      *)
(***************************************************************************)
\* Two numbers, and a string that looks like the first of them.
Scalars == {IntVal(1), IntVal(2), StrVal(<<"1">>)}

\* The map keys, in ascending order.
ValueKeys == << <<"a">>, <<"b">> >>

RECURSIVE ValuesOfSize(_)
RECURSIVE SeqsOfSize(_)
RECURSIVE MapsOfSize(_, _)

ValuesOfSize(n) ==
    IF n = 1 THEN Scalars \cup {SeqVal(<<>>), MapVal(<<>>)}
    ELSE {SeqVal(e) : e \in SeqsOfSize(n - 1)}
         \cup {MapVal(m) : m \in MapsOfSize(1, n - 1)}

\* The sequences whose elements have n nodes in total.
SeqsOfSize(n) ==
    IF n = 0 THEN {<<>>}
    ELSE UNION {{<<v>> \o r : v \in ValuesOfSize(k), r \in SeqsOfSize(n - k)} :
                k \in 1..n}

\* The maps over the keys ValueKeys[j..] whose values have n nodes in total.
MapsOfSize(j, n) ==
    IF j > Len(ValueKeys) THEN (IF n = 0 THEN {<<>>} ELSE {})
    ELSE MapsOfSize(j + 1, n)
         \cup UNION {{(ValueKeys[j] :> v) @@ r :
                        v \in ValuesOfSize(k), r \in MapsOfSize(j + 1, n - k)} :
                     k \in 1..n}

Values == UNION {ValuesOfSize(n) : n \in 1..MaxNodes}

(***************************************************************************)
(* Identity Resolver: parser.ExtractKey.                                   *)
(***************************************************************************)
\* The value under the key path's segments, formatted, or the empty string
\* when a segment is missing, an intermediate value is no map or the final
\* value is no scalar.
RECURSIVE Walk(_, _)
Walk(value, segments) ==
    IF segments = <<>>
    THEN IF IsScalar(value) THEN FormatScalar(value) ELSE <<>>
    ELSE IF IsMap(value) /\ Head(segments) \in DOMAIN value.m
    THEN Walk(value.m[Head(segments)], Tail(segments))
    ELSE <<>>

\* CompareCmd.Key's default, the key path NewEngine is given.
KeyPath == <<"m", "e", "t", "a", "d", "a", "t", "a", ".", "n", "a", "m", "e">>

\* strings.Split(KeyPath, "."), computed once.
KeyPathSegments == Split(KeyPath, ".")

\* strings.Split(keyPath, ".")
Segments(keyPath) ==
    IF keyPath = KeyPath THEN KeyPathSegments ELSE Split(keyPath, ".")

ExtractKey(content, keyPath) == Walk(content, Segments(keyPath))

(***************************************************************************)
(* Diff Engine: diff.Engine.                                               *)
(***************************************************************************)
\* parser.Document. Raw, the re-serialised text of Content, is only
\* printed and is left out.
Document(content, sourceFile) == [Content |-> content, SourceFile |-> sourceFile]

\* The identity of a document that has no usable key: its position.
IndexKey(i) ==
    <<"_", "_", "i", "n", "d", "e", "x", "_">> \o Itoa(i) \o <<"_", "_">>

\* The identity of docs[i] with no fallback for a document without a key.
RawKeyNoFallback(docs, i) == ExtractKey(docs[i].Content, KeyPath)

\* The identity of docs[i] before the source file is appended
\* (positions count from 0 in the identity).
RawKey(docs, i) ==
    LET key == ExtractKey(docs[i].Content, KeyPath)
    IN  IF key = <<>> THEN IndexKey(i - 1) ELSE key

\* fmt.Sprintf("%s (from %s)", key, sourceFile)
WithSource(key, sourceFile) ==
    key \o <<" ", "(", "f", "r", "o", "m", " ">> \o sourceFile \o <<")">>

\* The key of docs[i], the source file appended only when another document
\* of docs has the same raw key and a different source file.
DocKeyOnCollision(docs, i) ==
    IF /\ docs[i].SourceFile # <<>>
       /\ \E j \in 1..Len(docs) :
            /\ RawKey(docs, j) = RawKey(docs, i)
            /\ docs[j].SourceFile # docs[i].SourceFile
    THEN WithSource(RawKey(docs, i), docs[i].SourceFile)
    ELSE RawKey(docs, i)

\* The key of docs[i] with no source file appended.
DocKeyNoSource(docs, i) == RawKey(docs, i)

\* The key makeDocMap files docs[i] under: the raw key, with the source file
\* appended whenever SourceFile is set.
DocKey(docs, i) ==
    IF docs[i].SourceFile # <<>>
    THEN WithSource(RawKey(docs, i), docs[i].SourceFile)
    ELSE RawKey(docs, i)

\* makeDocMap's loop keeping the first document of a key.
RECURSIVE makeDocMapKeepingFirst(_, _, _)
makeDocMapKeepingFirst(docs, i, docMap) ==
    IF i > Len(docs) THEN docMap
    ELSE makeDocMapKeepingFirst(docs, i + 1, docMap @@ (DocKey(docs, i) :> docs[i]))

\* makeDocMap's loop from document i on: docMap[key] = doc, a later document
\* replacing an earlier one of the same key.
RECURSIVE makeDocMapFrom(_, _, _)
makeDocMapFrom(docs, i, docMap) ==
    IF i > Len(docs) THEN docMap
    ELSE makeDocMapFrom(docs, i + 1, (DocKey(docs, i) :> docs[i]) @@ docMap)

makeDocMap(docs) == makeDocMapFrom(docs, 1, <<>>)

\* diff.Result
EmptyResult == [Added |-> <<>>, Deleted |-> <<>>, Modified |-> <<>>]

\* Compare with every common identity recorded as modified, changed or not.
CompareKeepingUnchanged(old, new) ==
    LET oldMap == makeDocMap(old)
        newMap == makeDocMap(new)
    IN  [Added |-> [k \in DOMAIN newMap \ DOMAIN oldMap |-> newMap[k]],
         Deleted |-> [k \in DOMAIN oldMap \ DOMAIN newMap |-> oldMap[k]],
         Modified |-> [k \in DOMAIN oldMap \cap DOMAIN newMap |->
                         CompareValues(oldMap[k].Content, newMap[k].Content, <<>>)]]

\* Compare with the new documents, common ones too, all recorded as added.
CompareAddingAll(old, new) ==
    LET oldMap == makeDocMap(old)
        newMap == makeDocMap(new)
        changed == {k \in DOMAIN oldMap \cap DOMAIN newMap :
                      CompareValues(oldMap[k].Content, newMap[k].Content, <<>>) # <<>>}
    IN  [Added |-> [k \in DOMAIN newMap |-> newMap[k]],
         Deleted |-> [k \in DOMAIN oldMap \ DOMAIN newMap |-> oldMap[k]],
         Modified |-> [k \in changed |->
                         CompareValues(oldMap[k].Content, newMap[k].Content, <<>>)]]

\* makeDocMap's loop with every document filed under its raw key.
RECURSIVE makeRawDocMapFrom(_, _, _)
makeRawDocMapFrom(docs, i, docMap) ==
    IF i > Len(docs) THEN docMap
    ELSE makeRawDocMapFrom(docs, i + 1, (RawKey(docs, i) :> docs[i]) @@ docMap)

\* Compare with the source file appended on the new side only.
CompareOldWithoutSource(old, new) ==
    LET oldMap == makeRawDocMapFrom(old, 1, <<>>)
        newMap == makeDocMap(new)
        changed == {k \in DOMAIN oldMap \cap DOMAIN newMap :
                      CompareValues(oldMap[k].Content, newMap[k].Content, <<>>) # <<>>}
    IN  [Added |-> [k \in DOMAIN newMap \ DOMAIN oldMap |-> newMap[k]],
         Deleted |-> [k \in DOMAIN oldMap \ DOMAIN newMap |-> oldMap[k]],
         Modified |-> [k \in changed |->
                         CompareValues(oldMap[k].Content, newMap[k].Content, <<>>)]]

\* Compare with the deleted documents collected by the loop that collects
\* the added ones.
CompareDeletedFromNew(old, new) ==
    LET oldMap == makeDocMap(old)
        newMap == makeDocMap(new)
        changed == {k \in DOMAIN oldMap \cap DOMAIN newMap :
                      CompareValues(oldMap[k].Content, newMap[k].Content, <<>>) # <<>>}
    IN  [Added |-> [k \in DOMAIN newMap \ DOMAIN oldMap |-> newMap[k]],
         Deleted |-> [k \in DOMAIN newMap \ DOMAIN oldMap |-> newMap[k]],
         Modified |-> [k \in changed |->
                         CompareValues(oldMap[k].Content, newMap[k].Content, <<>>)]]

\* Engine.Compare: both sequences mapped by identity; added are the new
\* identities the old map lacks, deleted the old ones the new map lacks,
\* modified the common ones whose contents differ.
Compare(old, new) ==
    LET oldMap == makeDocMap(old)
        newMap == makeDocMap(new)
        changed == {k \in DOMAIN oldMap \cap DOMAIN newMap :
                      CompareValues(oldMap[k].Content, newMap[k].Content, <<>>) # <<>>}
    IN  [Added |-> [k \in DOMAIN newMap \ DOMAIN oldMap |-> newMap[k]],
         Deleted |-> [k \in DOMAIN oldMap \ DOMAIN newMap |-> oldMap[k]],
         Modified |-> [k \in changed |->
                         CompareValues(oldMap[k].Content, newMap[k].Content, <<>>)]]

\* Result.HasDifferences
HasDifferences(r) == r.Added # <<>> \/ r.Deleted # <<>> \/ r.Modified # <<>>

(***************************************************************************)
(* Rendering: diff.Result.Print, PrintSummary, PrintSummaryCompact.        *)
(***************************************************************************)
\* The keys of a map in the order one range over it visits them: any order.
IterationOrders(map) ==
    {order \in [1..Cardinality(DOMAIN map) -> DOMAIN map] :
        \A i, j \in DOMAIN order : order[i] = order[j] => i = j}

\* A slice with s inserted before its first greater element.
RECURSIVE InsertSorted(_, _)
InsertSorted(sorted, s) ==
    IF sorted = <<>> THEN <<s>>
    ELSE IF StrLess(s, Head(sorted)) THEN <<s>> \o sorted
    ELSE <<Head(sorted)>> \o InsertSorted(Tail(sorted), s)

\* The keys left in the order the map handed them out.
SortedKeysUnsorted(keys) == keys

\* sort.Strings(keys)
RECURSIVE SortedKeys(_)
SortedKeys(keys) ==
    IF keys = <<>> THEN <<>>
    ELSE InsertSorted(SortedKeys(Tail(keys)), Head(keys))

\* fmt.Sprintf("%d added, %d deleted, %d modified", added, deleted, modified)
SummaryCompact(added, deleted, modified) ==
    Itoa(added) \o <<" ", "a", "d", "d", "e", "d", ",", " ">>
    \o Itoa(deleted) \o <<" ", "d", "e", "l", "e", "t", "e", "d", ",", " ">>
    \o Itoa(modified) \o <<" ", "m", "o", "d", "i", "f", "i", "e", "d">>

\* Result.PrintSummaryCompact: the counts are taken from the Result.
PrintSummaryCompact(r) ==
    SummaryCompact(Cardinality(DOMAIN r.Added), Cardinality(DOMAIN r.Deleted),
                   Cardinality(DOMAIN r.Modified))

\* A Difference's path in dot and bracket notation: a.b[0].c
RECURSIVE FormatPath(_)
FormatPath(path) ==
    IF path = <<>> THEN <<>>
    ELSE LET step == Head(path)
             rest == FormatPath(Tail(path))
             this == IF "key" \in DOMAIN step
                     THEN step.key
                     ELSE <<"[">> \o Itoa(step.index) \o <<"]">>
         IN  IF rest = <<>> \/ Head(rest) = "[" THEN this \o rest
             ELSE this \o <<".">> \o rest

\* One printed line: its text and the values printed with it.
Line(text, kind, oldValue, newValue) ==
    [text |-> text, kind |-> kind, oldValue |-> oldValue, newValue |-> newValue]

\* The lines of the added or deleted documents under the keys in order; the
\* content is printed in verbose mode only.
RECURSIVE DocLines(_, _, _, _)
DocLines(mark, docs, keys, verbose) ==
    IF keys = <<>> THEN <<>>
    ELSE LET content == IF verbose THEN docs[Head(keys)].Content ELSE Absent
         IN  <<Line(mark \o <<" ">> \o Head(keys), "document", content, content)>>
             \o DocLines(mark, docs, Tail(keys), verbose)

\* One line per Difference: its path, its kind, the old and the new value.
DiffLines(differences) ==
    [i \in DOMAIN differences |->
        Line(FormatPath(differences[i].path), differences[i].kind,
             differences[i].oldValue, differences[i].newValue)]

\* The lines of the modified documents under the keys in order.
RECURSIVE ModifiedLines(_, _)
ModifiedLines(modified, keys) ==
    IF keys = <<>> THEN <<>>
    ELSE <<Line(<<"~", " ">> \o Head(keys), "document", Absent, Absent)>>
         \o DiffLines(modified[Head(keys)])
         \o ModifiedLines(modified, Tail(keys))

\* Result.Print(verbose), the three maps ranged over in the given orders:
\* each category's keys are sorted before they are printed; the verbose
\* output ends with the compact summary.
PrintResult(r, verbose, addedOrder, deletedOrder, modifiedOrder) ==
    DocLines(<<"+">>, r.Added, SortedKeys(addedOrder), verbose)
    \o DocLines(<<"-">>, r.Deleted, SortedKeys(deletedOrder), verbose)
    \o ModifiedLines(r.Modified, SortedKeys(modifiedOrder))
    \o (IF verbose
        THEN <<Line(PrintSummaryCompact(r), "summary", Absent, Absent)>>
        ELSE <<>>)

(***************************************************************************)
(* Template data: github.PrepareTemplateData.                              *)
(***************************************************************************)
\* The template summary with the counts in another order.
SummaryDeletedFirst(added, deleted, modified) ==
    <<"P", "l", "a", "n", ":", " ">> \o Itoa(deleted) \o <<" ", "t", "o", " ", "a", "d", "d", ",", " ">>
    \o Itoa(added) \o <<" ", "t", "o", " ", "d", "e", "l", "e", "t", "e", ",", " ">>
    \o Itoa(modified) \o <<" ", "t", "o", " ", "m", "o", "d", "i", "f", "y">>

\* fmt.Sprintf("Plan: %d to add, %d to delete, %d to modify", ...)
Summary(added, deleted, modified) ==
    <<"P", "l", "a", "n", ":", " ">> \o Itoa(added) \o <<" ", "t", "o", " ", "a", "d", "d", ",", " ">>
    \o Itoa(deleted) \o <<" ", "t", "o", " ", "d", "e", "l", "e", "t", "e", ",", " ">>
    \o Itoa(modified) \o <<" ", "t", "o", " ", "m", "o", "d", "i", "f", "y">>

\* TemplateData of a Result whose maps are ranged over in the given orders.
\* Link and Vars are handed through and are left out.
PrepareTemplateData(r, details, addedOrder, deletedOrder, modifiedOrder) ==
    LET added == Cardinality(DOMAIN r.Added)
        deleted == Cardinality(DOMAIN r.Deleted)
        modified == Cardinality(DOMAIN r.Modified)
    IN  [Summary |-> Summary(added, deleted, modified),
         Details |-> details,
         HasChanges |-> HasDifferences(r),
         Added |-> added,
         Deleted |-> deleted,
         Modified |-> modified,
         AddedList |-> SortedKeys(addedOrder),
         DeletedList |-> SortedKeys(deletedOrder),
         ModifiedList |-> SortedKeys(modifiedOrder)]

(***************************************************************************)
(* Configuration: config.Config and config.GetLabels.                      *)
(***************************************************************************)
\* What LoadConfig reads from yamlcmt.yaml: the repository, the template
\* (none, one that renders, one that does not), a label per condition (the
\* empty string when the condition has no label) and the two switches.
Config(repo, template, add, del, mod, none, noComment, noLabel) ==
    [RepoFullName |-> repo, Template |-> template,
     WhenHasAdditions |-> add, WhenHasDeletions |-> del,
     WhenHasModifications |-> mod, WhenNoChanges |-> none,
     DisableComment |-> noComment, DisableLabel |-> noLabel]

\* Before LoadConfig, and in a run without --config.
NoConfig == Config(<<>>, "", <<>>, <<>>, <<>>, <<>>, FALSE, FALSE)

\* GetLabels stopping at the first condition that holds.
GetLabelsFirstOnly(c, added, deleted, modified) ==
    IF added = 0 /\ deleted = 0 /\ modified = 0 THEN <<c.WhenNoChanges>>
    ELSE IF added > 0 THEN <<c.WhenHasAdditions>>
    ELSE IF deleted > 0 THEN <<c.WhenHasDeletions>>
    ELSE <<c.WhenHasModifications>>

\* GetLabels(added, deleted, modified): the no-changes label alone when there
\* is no change, else the label of every condition that holds.
GetLabels(c, added, deleted, modified) ==
    IF added = 0 /\ deleted = 0 /\ modified = 0 THEN <<c.WhenNoChanges>>
    ELSE (IF added > 0 THEN <<c.WhenHasAdditions>> ELSE <<>>)
         \o (IF deleted > 0 THEN <<c.WhenHasDeletions>> ELSE <<>>)
         \o (IF modified > 0 THEN <<c.WhenHasModifications>> ELSE <<>>)

\* AddLabels' validLabels: the labels that are not empty.
ValidLabels(list) == SelectSeq(list, LAMBDA label : label # <<>>)

\* The state of the reporting variables where nothing is reported.
ReportIdle ==
    /\ cfg = NoConfig
    /\ outputs = <<>>
    /\ labels = <<>>

(***************************************************************************)
(* Reading the input: git.ParseFilesWithSourceTracking and                 *)
(* parser.ParseMultiDocYAML.                                               *)
(***************************************************************************)
\* One document of a YAML stream: one that decodes to a map, one that holds
\* nothing but comments or blank lines, one the decoder rejects.
Section(content) == [yaml |-> "map", content |-> content]
EmptySection == [yaml |-> "empty", content |-> MapVal(<<>>)]
Malformed == [yaml |-> "malformed", content |-> MapVal(<<>>)]

\* cleanYAMLContent, document by document: the leading comments, blank
\* lines and separators are dropped.
RECURSIVE CleanStream(_)
CleanStream(stream) ==
    IF stream = <<>> THEN <<>>
    ELSE IF Head(stream).yaml = "empty" THEN CleanStream(Tail(stream))
    ELSE stream

\* cleanYAMLContent's loop dropping every comment line, leading or not.
RECURSIVE cleanLinesEverywhere(_, _, _, _)
cleanLinesEverywhere(lines, i, skippingLeadingContent, kept) ==
    IF i > Len(lines) THEN kept
    ELSE LET line == lines[i]
             trimmed == TrimSpace(line)
         IN  IF HasPrefix(trimmed, <<"#">>)
             THEN cleanLinesEverywhere(lines, i + 1, skippingLeadingContent, kept)
             ELSE IF /\ skippingLeadingContent
                     /\ (Len(trimmed) = 0 \/ trimmed = <<"-", "-", "-">>)
             THEN cleanLinesEverywhere(lines, i + 1, TRUE, kept)
             ELSE cleanLinesEverywhere(lines, i + 1, FALSE, Append(kept, line))

\* cleanYAMLContent's loop over the lines from line i on: while skipping,
\* a line that after trimming starts with "#", is empty or equals "---" is
\* dropped; the first other line ends the skipping, and it and every line
\* after it are kept as they are.
RECURSIVE cleanLines(_, _, _, _)
cleanLines(lines, i, skippingLeadingContent, kept) ==
    IF i > Len(lines) THEN kept
    ELSE LET line == lines[i]
             trimmed == TrimSpace(line)
         IN  IF /\ skippingLeadingContent
                /\ \/ HasPrefix(trimmed, <<"#">>)
                   \/ Len(trimmed) = 0
                   \/ trimmed = <<"-", "-", "-">>
             THEN cleanLines(lines, i + 1, TRUE, kept)
             ELSE cleanLines(lines, i + 1, FALSE, Append(kept, line))

\* cleanYAMLContent(content): the content split on "\n", cleaned, and
\* joined with "\n"; empty if no line is kept.
cleanYAMLContent(c) ==
    LET kept == cleanLines(Split(c, "\n"), 1, TRUE, <<>>)
    IN  IF Len(kept) = 0 THEN <<>> ELSE Join(kept, "\n")

\* GetChangedYAMLFiles' loop over the lines of git's output from line i on:
\* the file name is the trimmed line; an empty one is skipped; a line that
\* ends in ".yaml" or ".yml" has its file name appended if os.Stat finds
\* the file.
RECURSIVE changedFrom(_, _, _, _)
changedFrom(lines, i, exists, found) ==
    IF i > Len(lines) THEN found
    ELSE LET line == lines[i]
             filename == TrimSpace(line)
         IN  IF filename = <<>> THEN changedFrom(lines, i + 1, exists, found)
             ELSE IF /\ \/ HasSuffix(line, <<".", "y", "a", "m", "l">>)
                        \/ HasSuffix(line, <<".", "y", "m", "l">>)
                     /\ filename \in exists
             THEN changedFrom(lines, i + 1, exists, Append(found, filename))
             ELSE changedFrom(lines, i + 1, exists, found)

\* GetChangedYAMLFiles(branch): an error and no list when git fails, else
\* the files found in its output.
GetChangedYAMLFiles(out, exists) ==
    IF out.failed
    THEN [files |-> <<>>, err |-> "failed to get changed files from git"]
    ELSE [files |-> changedFrom(Split(out.bytes, "\n"), 1, exists, <<>>), err |-> ""]

\* The state of the capture's variables when nothing is captured.
PipeIdle ==
    /\ pipe = <<>>
    /\ pending = <<>>
    /\ detailsBuf = <<>>

\* A temporary file that has not been created.
NoTemp == [created |-> FALSE, open |-> FALSE, exists |-> FALSE, data |-> <<>>]

\* The state of the git package's variables in the specifications that do
\* not call it.
GitIdle ==
    /\ rawContent = <<>>
    /\ cleaned = <<>>
    /\ output = [failed |-> FALSE, bytes |-> <<>>]
    /\ disk = {}
    /\ yamlFiles = <<>>
    /\ tmpOld = NoTemp
    /\ tmpNew = NoTemp
    /\ fileIndex = 0

\* The decoder's loop: every document up to io.EOF is appended with its
\* source file; the first document that fails to decode ends the loop.
RECURSIVE Decode(_, _, _)
Decode(stream, file, docs) ==
    IF stream = <<>> THEN [ok |-> TRUE, docs |-> docs]
    ELSE IF Head(stream).yaml = "malformed" THEN [ok |-> FALSE, docs |-> docs]
    ELSE Decode(Tail(stream), file, Append(docs, Document(Head(stream).content, file)))

\* What a parse step returns: the documents and no error, or no document
\* and the error.
Parsed(old, new) == [oldDocs |-> old, newDocs |-> new, err |-> ""]
ParseError(message) == [oldDocs |-> <<>>, newDocs |-> <<>>, err |-> message]

\* ParseFilesWithSourceTracking dropping a document it cannot decode.
RECURSIVE ParseFilesSkippingMalformed(_, _, _, _, _)
ParseFilesSkippingMalformed(w, targetFiles, i, old, new) ==
    IF i > Len(targetFiles) THEN Parsed(old, new)
    ELSE LET file == targetFiles[i]
             decodedOld == IF w[file].show = "ok"
                           THEN Decode(CleanStream(w[file].old), file, <<>>)
                           ELSE [ok |-> TRUE, docs |-> <<>>]
             decodedNew == Decode(CleanStream(w[file].new), file, <<>>)
         IN  IF ~w[file].readable THEN ParseError("failed to read")
             ELSE ParseFilesSkippingMalformed(w, targetFiles, i + 1,
                                              old \o decodedOld.docs,
                                              new \o decodedNew.docs)

\* ParseFilesWithSourceTracking leaving out a file that is not at the branch.
RECURSIVE ParseFilesSkippingNewFiles(_, _, _, _, _)
ParseFilesSkippingNewFiles(w, targetFiles, i, old, new) ==
    IF i > Len(targetFiles) THEN Parsed(old, new)
    ELSE LET file == targetFiles[i]
             decodedOld == Decode(CleanStream(w[file].old), file, <<>>)
             decodedNew == Decode(CleanStream(w[file].new), file, <<>>)
         IN  IF w[file].show # "ok"
             THEN ParseFilesSkippingNewFiles(w, targetFiles, i + 1, old, new)
             ELSE IF ~decodedOld.ok THEN ParseError("failed to parse old version")
             ELSE IF ~w[file].readable THEN ParseError("failed to read")
             ELSE IF ~decodedNew.ok THEN ParseError("failed to parse new version")
             ELSE ParseFilesSkippingNewFiles(w, targetFiles, i + 1,
                                             old \o decodedOld.docs,
                                             new \o decodedNew.docs)

\* ParseFilesWithSourceTracking from the i-th file on. git show's output is
\* decoded when git show succeeded (gitErr == nil); when it failed, for
\* whatever reason, the file counts as new and has no old document.
RECURSIVE ParseFilesWithSourceTracking(_, _, _, _, _)
ParseFilesWithSourceTracking(w, targetFiles, i, old, new) ==
    IF i > Len(targetFiles) THEN Parsed(old, new)
    ELSE LET file == targetFiles[i]
             decodedOld == IF w[file].show = "ok"
                           THEN Decode(CleanStream(w[file].old), file, <<>>)
                           ELSE [ok |-> TRUE, docs |-> <<>>]
             decodedNew == Decode(CleanStream(w[file].new), file, <<>>)
         IN  IF ~decodedOld.ok THEN ParseError("failed to parse old version")
             ELSE IF ~w[file].readable THEN ParseError("failed to read")
             ELSE IF ~decodedNew.ok THEN ParseError("failed to parse new version")
             ELSE ParseFilesWithSourceTracking(w, targetFiles, i + 1,
                                               old \o decodedOld.docs,
                                               new \o decodedNew.docs)

\* parser.ParseMultiDocYAML(path): the documents of the file, none of them
\* with a source file, or an error.
ParseMultiDocYAML(w, path) ==
    IF ~w[path].readable THEN [ok |-> FALSE, docs |-> <<>>]
    ELSE Decode(CleanStream(w[path].new), <<>>, <<>>)

\* The two ParseMultiDocYAML calls of Run, the second one made only when
\* the first returned no error.
ParseTwoFiles(w, file1, file2) ==
    LET docs1 == ParseMultiDocYAML(w, file1)
        docs2 == ParseMultiDocYAML(w, file2)
    IN  IF ~docs1.ok THEN ParseError("error parsing file1")
        ELSE IF ~docs2.ok THEN ParseError("error parsing file2")
        ELSE Parsed(docs1.docs, docs2.docs)

\* A file the run does not look at.
NoFile == [show |-> "ok", old |-> <<>>, readable |-> TRUE, new |-> <<>>]

(***************************************************************************)
(* The GitHub client: getClient, parseRepo.                                *)
(***************************************************************************)
\* getClient: there is a client iff GITHUB_TOKEN is set in the environment;
\* the token of --github-token is not handed to it.
getClient(flagToken, envToken) == envToken # <<>>

\* parseRepo: "owner/repo" has exactly two parts.
parseRepo(repo) == Len(Split(repo, "/")) = 2

\* The defaults of --changes-label and --no-changes-label.
ChangesLabel ==
    <<"c", "o", "n", "f", "i", "g", "-", "s", "y", "n", "c", "/", "c", "h",
      "a", "n", "g", "e", "s">>
NoChangesLabel ==
    <<"c", "o", "n", "f", "i", "g", "-", "s", "y", "n", "c", "/", "n", "o",
      "-", "c", "h", "a", "n", "g", "e", "s">>

\* A command line with nothing set.
NoOptions ==
    [File1 |-> <<>>, File2 |-> <<>>, GitCompare |-> <<>>, ShowCounts |-> FALSE,
     Verbose |-> FALSE, Config |-> FALSE, PostComment |-> FALSE,
     GithubLabel |-> FALSE, GithubRepo |-> <<>>, GithubPR |-> 0,
     GithubToken |-> <<>>, ChangesLabel |-> ChangesLabel,
     NoChangesLabel |-> NoChangesLabel]

\* The state of the run's variables in the specifications that call the
\* engine directly.
RunIdle ==
    /\ opts = NoOptions
    /\ files = <<>>
    /\ world = <<>>
    /\ token = <<>>
    /\ stdout = <<>>
    /\ comments = <<>>
    /\ calls = <<>>
    /\ err = ""
    /\ exit = 0

(***************************************************************************)
(* The documents the engine is run on.                                     *)
(***************************************************************************)
Metadata == <<"m", "e", "t", "a", "d", "a", "t", "a">>
Name == <<"n", "a", "m", "e">>
Value == <<"v", "a", "l", "u", "e">>

\* {metadata: {name: a}, value: n}
Named(n) ==
    MapVal((Metadata :> MapVal(Name :> StrVal(<<"a">>))) @@ (Value :> IntVal(n)))

\* {value: 1}: no metadata.name
Unnamed == MapVal(Value :> IntVal(1))

FileF == <<"f">>
FileG == <<"g">>

\* Two versions of the resource "a", with no source file (two-file mode) and
\* in the file f, a resource "a" of the file g (git-compare mode); a document
\* without the key.
DocPool ==
    {Document(Named(1), <<>>), Document(Named(2), <<>>),
     Document(Named(1), FileF), Document(Named(2), FileF),
     Document(Named(1), FileG),
     Document(Unnamed, <<>>)}

DocSeqs == UNION {[1..n -> DocPool] : n \in 0..MaxDocs}

(***************************************************************************)
(* Spec: the engine on every pair of document sequences.                   *)
(***************************************************************************)
Init ==
    /\ oldDocs \in DocSeqs
    /\ newDocs \in DocSeqs
    /\ result = EmptyResult
    /\ swapped = EmptyResult
    /\ pc = "parsed"
    /\ vOld = MapVal(<<>>)
    /\ vNew = MapVal(<<>>)
    /\ diffs = <<>>
    /\ vDone = FALSE
    /\ ReportIdle
    /\ RunIdle
    /\ GitIdle
    /\ PipeIdle

\* result := engine.Compare(docs1, docs2)
DoCompare ==
    /\ pc = "parsed"
    /\ result' = Compare(oldDocs, newDocs)
    /\ pc' = "compared"
    /\ UNCHANGED <<oldDocs, newDocs, swapped, valueVars, reportVars, inputVars,
                   gitVars, runVars, pipeVars>>

\* The same engine on the two sequences exchanged.
DoCompareSwapped ==
    /\ pc = "compared"
    /\ swapped' = Compare(newDocs, oldDocs)
    /\ pc' = "swapped"
    /\ UNCHANGED <<oldDocs, newDocs, result, valueVars, reportVars, inputVars,
                   gitVars, runVars, pipeVars>>

Next == DoCompare \/ DoCompareSwapped

Spec == Init /\ [][Next]_vars

(***************************************************************************)
(* SpecValues: the comparator on every pair of values.                     *)
(***************************************************************************)
InitValues ==
    /\ vOld \in Values
    /\ vNew \in Values
    /\ diffs = <<>>
    /\ vDone = FALSE
    /\ ReportIdle
    /\ RunIdle
    /\ GitIdle
    /\ PipeIdle
    /\ oldDocs = <<>>
    /\ newDocs = <<>>
    /\ result = EmptyResult
    /\ swapped = EmptyResult
    /\ pc = "parsed"

\* diffs := parser.CompareValues(old, new), from the root path
DoCompareValues ==
    /\ ~vDone
    /\ diffs' = CompareValues(vOld, vNew, <<>>)
    /\ vDone' = TRUE
    /\ UNCHANGED <<vOld, vNew, engineVars, reportVars, inputVars, gitVars,
                   runVars, pipeVars>>

NextValues == DoCompareValues

SpecValues == InitValues /\ [][NextValues]_vars

(***************************************************************************)
(* Notions the properties are stated with.                                 *)
(***************************************************************************)
\* The identities of a document sequence, document by document.
Identities(docs) == {DocKey(docs, i) : i \in 1..Len(docs)}

\* The last document of docs that has identity k.
LastWith(docs, k) ==
    LET at == {i \in 1..Len(docs) : DocKey(docs, i) = k}
    IN  docs[CHOOSE i \in at : \A j \in at : j <= i]

\* The differences between the last documents of identity k of both sides.
ContentDiff(k) ==
    CompareValues(LastWith(oldDocs, k).Content, LastWith(newDocs, k).Content, <<>>)

Reported(r) == DOMAIN r.Added \cup DOMAIN r.Deleted \cup DOMAIN r.Modified

\* Two documents of one sequence from different source files with the same
\* raw identity.
Collide(docs, i, j) ==
    /\ i # j
    /\ docs[i].SourceFile # <<>>
    /\ docs[j].SourceFile # <<>>
    /\ docs[i].SourceFile # docs[j].SourceFile
    /\ RawKey(docs, i) = RawKey(docs, j)

Kind(v) == IF IsMap(v) THEN "map" ELSE IF IsSeq(v) THEN "seq" ELSE "scalar"

\* Every path that leads to a value inside v, the empty path included.
RECURSIVE PathsOf(_)
PathsOf(v) ==
    {<<>>}
    \cup (IF IsMap(v)
          THEN UNION {{<<KeyStep(k)>> \o q : q \in PathsOf(v.m[k])} : k \in DOMAIN v.m}
          ELSE {})
    \cup (IF IsSeq(v)
          THEN UNION {{<<IndexStep(j - 1)>> \o q : q \in PathsOf(v.e[j])} :
                      j \in 1..Len(v.e)}
          ELSE {})

\* The value inside v at a path of PathsOf(v).
RECURSIVE At(_, _)
At(v, path) ==
    IF path = <<>> THEN v
    ELSE IF IsMap(v) THEN At(v.m[Head(path).key], Tail(path))
    ELSE At(v.e[Head(path).index + 1], Tail(path))

IsPrefix(p, q) == Len(p) <= Len(q) /\ SubSeq(q, 1, Len(p)) = p

\* The paths both values have.
CommonPaths == PathsOf(vOld) \cap PathsOf(vNew)

\* The positions in diffs of the differences at or below a path.
Under(p) == {i \in DOMAIN diffs : IsPrefix(p, diffs[i].path)}

\* The positions in diffs of the differences at exactly a path.
Exactly(p) == {i \in DOMAIN diffs : diffs[i].path = p}

(***************************************************************************)
(* Properties of the Diff Engine, under Spec.                              *)
(***************************************************************************)
\* C1: in the Result of Compare the key sets of added, deleted and modified
\* are pairwise disjoint, and an identity that both sides have with no
\* difference between its two documents is in none of the three. Scenario 5:
\* two non-empty sides that share no identity give additions and deletions
\* and no modification.
ThmC1_DisjointAndUnchangedExcluded ==
    pc = "compared" =>
        /\ DOMAIN result.Added \cap DOMAIN result.Deleted = {}
        /\ DOMAIN result.Added \cap DOMAIN result.Modified = {}
        /\ DOMAIN result.Deleted \cap DOMAIN result.Modified = {}
        /\ \A k \in Identities(oldDocs) \cap Identities(newDocs) :
              ContentDiff(k) = <<>> => k \notin Reported(result)
        /\ (/\ oldDocs # <<>>
            /\ newDocs # <<>>
            /\ Identities(oldDocs) \cap Identities(newDocs) = {})
           => /\ result.Added # <<>>
              /\ result.Deleted # <<>>
              /\ result.Modified = <<>>

\* A comparison with an addition, a deletion and an unchanged identity.
WitC1_AddedDeletedUnchanged ==
    /\ pc = "compared"
    /\ result.Added # <<>>
    /\ result.Deleted # <<>>
    /\ \E k \in Identities(oldDocs) \cap Identities(newDocs) : ContentDiff(k) = <<>>

\* C2: added is exactly the new identities the old side lacks, deleted
\* exactly the old identities the new side lacks, modified exactly the
\* common identities whose contents the comparator finds different, each
\* mapped to that sequence of differences.
ThmC2_Classification ==
    pc = "compared" =>
        /\ DOMAIN result.Added = Identities(newDocs) \ Identities(oldDocs)
        /\ \A k \in DOMAIN result.Added : result.Added[k] = LastWith(newDocs, k)
        /\ DOMAIN result.Deleted = Identities(oldDocs) \ Identities(newDocs)
        /\ \A k \in DOMAIN result.Deleted : result.Deleted[k] = LastWith(oldDocs, k)
        /\ DOMAIN result.Modified =
              {k \in Identities(oldDocs) \cap Identities(newDocs) : ContentDiff(k) # <<>>}
        /\ \A k \in DOMAIN result.Modified : result.Modified[k] = ContentDiff(k)

\* Scenario 1: value 1 becomes 2 in the resource "a".
WitC2_Scenario1 ==
    /\ pc = "compared"
    /\ oldDocs = <<Document(Named(1), <<>>)>>
    /\ newDocs = <<Document(Named(2), <<>>)>>
    /\ result.Added = <<>>
    /\ result.Deleted = <<>>
    /\ result.Modified =
          (<<"a">> :> <<Difference(<<KeyStep(Value)>>, "value-changed",
                                   IntVal(1), IntVal(2))>>)

\* C3: Compare(docs, docs) gives a Result with nothing added, deleted or
\* modified.
ThmC3_Idempotence ==
    (pc = "compared" /\ oldDocs = newDocs) => result = EmptyResult

\* A sequence compared with itself that has two documents of one raw
\* identity and different contents.
WitC3_SelfCompareWithCollision ==
    /\ pc = "compared"
    /\ oldDocs = newDocs
    /\ Len(oldDocs) = 2
    /\ RawKey(oldDocs, 1) = RawKey(oldDocs, 2)
    /\ oldDocs[1].Content # oldDocs[2].Content

\* C4: the identities Compare(A, B) reports added are the ones Compare(B, A)
\* reports deleted, and the other way round.
ThmC4_Symmetry ==
    pc = "swapped" =>
        /\ DOMAIN result.Added = DOMAIN swapped.Deleted
        /\ DOMAIN result.Deleted = DOMAIN swapped.Added

\* Both directions compared, on sequences with an addition and a deletion.
WitC4_BothDirections ==
    /\ pc = "swapped"
    /\ result.Added # <<>>
    /\ result.Deleted # <<>>

\* C9: two documents of one sequence that come from different source files
\* and have the same raw identity are filed under two different identities
\* "<id> (from <sourceFile>)", each entry holding a document of its own
\* file and raw identity, and the Result reports both, each with its own
\* document, when the other side has no document.
ThmC9_CollisionDisambiguation ==
    pc = "compared" =>
        \A side \in {"old", "new"} :
            LET docs == IF side = "old" THEN oldDocs ELSE newDocs
                other == IF side = "old" THEN newDocs ELSE oldDocs
                report == IF side = "old" THEN result.Deleted ELSE result.Added
                own(i) == {docs[h] : h \in {g \in 1..Len(docs) :
                                /\ RawKey(docs, g) = RawKey(docs, i)
                                /\ docs[g].SourceFile = docs[i].SourceFile}}
            IN  \A i, j \in 1..Len(docs) :
                    Collide(docs, i, j) =>
                        LET ki == DocKey(docs, i)
                            kj == DocKey(docs, j)
                        IN  /\ ki # kj
                            /\ ki = WithSource(RawKey(docs, i), docs[i].SourceFile)
                            /\ kj = WithSource(RawKey(docs, j), docs[j].SourceFile)
                            /\ {ki, kj} \subseteq DOMAIN makeDocMap(docs)
                            /\ makeDocMap(docs)[ki] \in own(i)
                            /\ makeDocMap(docs)[kj] \in own(j)
                            /\ other = <<>> =>
                                  /\ {ki, kj} \subseteq DOMAIN report
                                  /\ report[ki] \in own(i)
                                  /\ report[kj] \in own(j)

\* The resource "a" of the files f and g, both new.
WitC9_TwoFilesSameName ==
    /\ pc = "compared"
    /\ oldDocs = <<>>
    /\ Len(newDocs) = 2
    /\ Collide(newDocs, 1, 2)
    /\ Cardinality(DOMAIN result.Added) = 2

\* C10: an old and a new document of the same raw identity and source file
\* get the same identity, which both mappings then hold and the Result
\* reports neither added nor deleted; a document that both sides have, with
\* no other document of its raw identity and source file on either side, is
\* not reported at all, whatever else the two sides contain.
ThmC10_SymmetricAugmentation ==
    pc = "compared" =>
      /\ \A i \in 1..Len(oldDocs), j \in 1..Len(newDocs) :
          (/\ RawKey(oldDocs, i) = RawKey(newDocs, j)
           /\ oldDocs[i].SourceFile = newDocs[j].SourceFile)
          => /\ DocKey(oldDocs, i) = DocKey(newDocs, j)
             /\ DocKey(oldDocs, i) \in DOMAIN makeDocMap(newDocs)
             /\ DocKey(newDocs, j) \in DOMAIN makeDocMap(oldDocs)
             /\ DocKey(oldDocs, i) \notin DOMAIN result.Added \cup DOMAIN result.Deleted
      /\ \A i \in 1..Len(oldDocs), j \in 1..Len(newDocs) :
              (/\ oldDocs[i] = newDocs[j]
               /\ RawKey(oldDocs, i) = RawKey(newDocs, j)
               /\ \A h \in 1..Len(oldDocs) :
                     (/\ RawKey(oldDocs, h) = RawKey(oldDocs, i)
                      /\ oldDocs[h].SourceFile = oldDocs[i].SourceFile) => h = i
               /\ \A h \in 1..Len(newDocs) :
                     (/\ RawKey(newDocs, h) = RawKey(newDocs, j)
                      /\ newDocs[h].SourceFile = newDocs[j].SourceFile) => h = j)
              => DocKey(oldDocs, i) \notin Reported(result)

\* The resource "a" of file f unchanged on both sides, and a resource "a"
\* of file g on the new side only.
WitC10_CollisionOnOneSide ==
    /\ pc = "compared"
    /\ oldDocs = <<Document(Named(1), FileF)>>
    /\ newDocs = <<Document(Named(1), FileF), Document(Named(1), FileG)>>
    /\ DOMAIN result.Added = {WithSource(<<"a">>, FileG)}
    /\ result.Deleted = <<>>
    /\ result.Modified = <<>>

(***************************************************************************)
(* Properties of the Value Comparator, under SpecValues.                   *)
(***************************************************************************)
\* C5: CompareValues returns no difference exactly when the two values are
\* deep-equal, a number and a string of its digits being unequal; two
\* unequal scalars of one type give one value-changed difference at the
\* root path, carrying both values.
ThmC5_EmptyIffDeepEqual ==
    vDone =>
        /\ (diffs = <<>>) <=> (vOld = vNew)
        /\ (IsScalar(vOld) /\ IsScalar(vNew) /\ vOld.t = vNew.t /\ vOld # vNew)
              => diffs = <<Difference(<<>>, "value-changed", vOld, vNew)>>

\* The number 1 compared with the string "1".
WitC5_NumberAgainstString ==
    /\ vDone
    /\ vOld = IntVal(1)
    /\ vNew = StrVal(<<"1">>)
    /\ diffs = <<Difference(<<>>, "value-changed", vOld, vNew)>>

\* C6: where the two values at a path are of different kinds (map, sequence,
\* scalar), there is exactly one difference at that path, a value-changed
\* carrying both values, and none below it.
ThmC6_KindChange ==
    vDone =>
        \A p \in CommonPaths :
            Kind(At(vOld, p)) # Kind(At(vNew, p)) =>
                /\ Cardinality(Exactly(p)) = 1
                /\ \A i \in Exactly(p) :
                      diffs[i] = Difference(p, "value-changed", At(vOld, p), At(vNew, p))
                /\ Under(p) = Exactly(p)

\* A map under the key "a" replaced by a scalar.
WitC6_MapAgainstScalar ==
    /\ vDone
    /\ vOld = MapVal(<<"a">> :> MapVal(<<"b">> :> IntVal(1)))
    /\ vNew = MapVal(<<"a">> :> IntVal(1))
    /\ Len(diffs) = 1

\* C7: for two sequences at a path, there is one array-length-changed
\* difference at that path, carrying both lengths, exactly when the lengths
\* differ; every index below the shorter length has differences under the
\* path extended by it exactly when its two elements differ; the indices
\* from the shorter length on have none.
ThmC7_Sequences ==
    vDone =>
        \A p \in CommonPaths :
            (IsSeq(At(vOld, p)) /\ IsSeq(At(vNew, p))) =>
                LET o == At(vOld, p).e
                    n == At(vNew, p).e
                    shorter == IF Len(o) < Len(n) THEN Len(o) ELSE Len(n)
                    longer == IF Len(o) < Len(n) THEN Len(n) ELSE Len(o)
                IN  /\ Len(o) = Len(n) => Exactly(p) = {}
                    /\ Len(o) # Len(n) =>
                          /\ Cardinality(Exactly(p)) = 1
                          /\ \A i \in Exactly(p) :
                                diffs[i] = Difference(p, "array-length-changed",
                                                      IntVal(Len(o)), IntVal(Len(n)))
                    /\ \A j \in 1..shorter :
                          (Under(Append(p, IndexStep(j - 1))) # {}) <=> (o[j] # n[j])
                    /\ \A j \in (shorter + 1)..longer :
                          Under(Append(p, IndexStep(j - 1))) = {}

\* [1, 2] against [2]: the length changed and so did the element 0.
WitC7_ShorterAndChanged ==
    /\ vDone
    /\ vOld = SeqVal(<<IntVal(1), IntVal(2)>>)
    /\ vNew = SeqVal(<<IntVal(2)>>)
    /\ Len(diffs) = 2

\* C8: for two maps at a path, a key only the old map has gives one
\* key-removed difference, a key only the new map has one key-added
\* difference, a key of both has differences under the path extended by it
\* exactly when its two values differ; the differences under the path come
\* in ascending key order.
ThmC8_Maps ==
    vDone =>
        \A p \in CommonPaths :
            (IsMap(At(vOld, p)) /\ IsMap(At(vNew, p))) =>
                LET o == At(vOld, p).m
                    n == At(vNew, p).m
                    at(k) == Append(p, KeyStep(k))
                    keyOf(i) == diffs[i].path[Len(p) + 1].key
                IN  /\ Exactly(p) = {}
                    /\ \A k \in DOMAIN o \ DOMAIN n :
                          /\ Cardinality(Under(at(k))) = 1
                          /\ \A i \in Under(at(k)) :
                                diffs[i] = Difference(at(k), "key-removed", o[k], Absent)
                    /\ \A k \in DOMAIN n \ DOMAIN o :
                          /\ Cardinality(Under(at(k))) = 1
                          /\ \A i \in Under(at(k)) :
                                diffs[i] = Difference(at(k), "key-added", Absent, n[k])
                    /\ \A k \in DOMAIN o \cap DOMAIN n :
                          (Under(at(k)) # {}) <=> (o[k] # n[k])
                    /\ \A i, j \in Under(p) :
                          i < j => ~StrLess(keyOf(j), keyOf(i))

\* {b: 1} against {a: 1}: the added key "a" comes before the removed "b".
WitC8_AddedBeforeRemoved ==
    /\ vDone
    /\ vOld = MapVal(<<"b">> :> IntVal(1))
    /\ vNew = MapVal(<<"a">> :> IntVal(1))
    /\ diffs = <<Difference(<<KeyStep(<<"a">>)>>, "key-added", Absent, IntVal(1)),
                 Difference(<<KeyStep(<<"b">>)>>, "key-removed", IntVal(1), Absent)>>

(***************************************************************************)
(* SpecKeyless: the engine on documents that have no usable key.           *)
(***************************************************************************)
\* {}: an empty document
EmptyDoc == MapVal(<<>>)

\* {metadata: 1}: the intermediate value is no map
MetadataScalar == MapVal(Metadata :> IntVal(1))

\* {metadata: {name: [1]}}: the final value is no scalar
NameSeq == MapVal(Metadata :> MapVal(Name :> SeqVal(<<IntVal(1)>>)))

\* One document for each way the key path can fail (Unnamed: the first
\* segment is missing), in two-file mode and in a file, and one with the key.
KeylessPool ==
    {Document(EmptyDoc, <<>>), Document(Unnamed, <<>>),
     Document(MetadataScalar, <<>>), Document(NameSeq, FileF),
     Document(Named(1), <<>>)}

KeylessSeqs == UNION {[1..n -> KeylessPool] : n \in 0..MaxDocs}

\* Key paths a user can pass with --key: the default, a top-level key, a
\* path through a scalar, an empty path, a path with an empty segment.
KeyPaths ==
    {KeyPath, Value, Value \o <<".">> \o Name, <<>>, Metadata \o <<".", ".">> \o Name}

InitKeyless ==
    /\ oldDocs \in KeylessSeqs
    /\ newDocs \in KeylessSeqs
    /\ result = EmptyResult
    /\ swapped = EmptyResult
    /\ pc = "parsed"
    /\ vOld = MapVal(<<>>)
    /\ vNew = MapVal(<<>>)
    /\ diffs = <<>>
    /\ vDone = FALSE
    /\ ReportIdle
    /\ RunIdle
    /\ GitIdle
    /\ PipeIdle

NextKeyless == DoCompare

SpecKeyless == InitKeyless /\ [][NextKeyless]_vars

\* docs[i] has no usable key under the engine's key path.
Keyless(docs, i) == ExtractKey(docs[i].Content, KeyPath) = <<>>

IsString(s) == s \in Seq({Alphabet[c] : c \in 1..Len(Alphabet)})

NameOnly(n) == MapVal(Metadata :> MapVal(Name :> StrVal(n)))

\* Two versions of the resource a, and the resources a, b and c.
ReportPool ==
    {Document(Named(1), <<>>), Document(Named(2), <<>>),
     Document(NameOnly(<<"a">>), <<>>), Document(NameOnly(<<"b">>), <<>>),
     Document(NameOnly(<<"c">>), <<>>)}

ReportSeqs == UNION {[1..n -> ReportPool] : n \in 0..MaxDocs}

\* The labels of the minimal configuration and of the installation guide.
MinimalLabels ==
    Config(<<>>, "", <<"h", "a", "s", "-", "a", "d", "d", "i", "t", "i", "o", "n", "s">>,
           <<"h", "a", "s", "-", "d", "e", "l", "e", "t", "i", "o", "n", "s">>,
           <<"h", "a", "s", "-", "c", "h", "a", "n", "g", "e", "s">>,
           <<"n", "o", "-", "c", "h", "a", "n", "g", "e", "s">>, FALSE, FALSE)

InstallLabels ==
    Config(<<>>, "", <<"c", "o", "n", "f", "i", "g", "-", "s", "y", "n", "c", "/",
             "a", "d", "d">>,
           <<"c", "o", "n", "f", "i", "g", "-", "s", "y", "n", "c", "/",
             "d", "e", "s", "t", "r", "o", "y">>,
           <<"c", "o", "n", "f", "i", "g", "-", "s", "y", "n", "c", "/",
             "c", "h", "a", "n", "g", "e", "s">>,
           <<"c", "o", "n", "f", "i", "g", "-", "s", "y", "n", "c", "/",
             "n", "o", "-", "c", "h", "a", "n", "g", "e", "s">>,
           FALSE, FALSE)

LabelConfigs == {MinimalLabels, InstallLabels}

InitReport ==
    /\ oldDocs \in ReportSeqs
    /\ newDocs \in ReportSeqs
    /\ result = EmptyResult
    /\ swapped = EmptyResult
    /\ pc = "parsed"
    /\ vOld = MapVal(<<>>)
    /\ vNew = MapVal(<<>>)
    /\ diffs = <<>>
    /\ vDone = FALSE
    /\ cfg \in LabelConfigs
    /\ outputs = <<>>
    /\ labels = <<>>
    /\ RunIdle
    /\ GitIdle
    /\ PipeIdle

\* What one pass over the Result prints and prepares: the summary line of
\* PrintSummary, Print(false), Print(true) and the template data with the
\* verbose output as its details. Every range over a map of the Result may
\* visit the keys in any order; the four outputs are built independently
\* of each other, so one choice of orders per pass covers them.
Render(r, addedOrder, deletedOrder, modifiedOrder) ==
    [compact |-> PrintSummaryCompact(r),
     lines |-> PrintResult(r, FALSE, addedOrder, deletedOrder, modifiedOrder),
     verbose |-> PrintResult(r, TRUE, addedOrder, deletedOrder, modifiedOrder),
     data |-> PrepareTemplateData(
                 r, PrintResult(r, TRUE, addedOrder, deletedOrder, modifiedOrder),
                 addedOrder, deletedOrder, modifiedOrder)]

\* result.Print / PrintSummary and github.PrepareTemplateData on the Result
\* of the comparison, a first and a second time.
DoRender ==
    /\ pc \in {"compared", "rendered"}
    /\ \E addedOrder \in IterationOrders(result.Added),
          deletedOrder \in IterationOrders(result.Deleted),
          modifiedOrder \in IterationOrders(result.Modified) :
            outputs' = Append(outputs,
                              Render(result, addedOrder, deletedOrder, modifiedOrder))
    /\ pc' = IF pc = "compared" THEN "rendered" ELSE "rendered twice"
    /\ UNCHANGED <<oldDocs, newDocs, result, swapped, valueVars, cfg, labels,
                   inputVars, gitVars, runVars, pipeVars>>

\* labels := compareConfig.GetLabels(len(result.Added), len(result.Deleted),
\* len(result.Modified)), of which AddLabels sends the non-empty ones.
DoGetLabels ==
    /\ pc = "rendered twice"
    /\ labels' = ValidLabels(GetLabels(cfg, Cardinality(DOMAIN result.Added),
                                       Cardinality(DOMAIN result.Deleted),
                                       Cardinality(DOMAIN result.Modified)))
    /\ pc' = "labelled"
    /\ UNCHANGED <<oldDocs, newDocs, result, swapped, valueVars, cfg, outputs,
                   inputVars, gitVars, runVars, pipeVars>>

NextReport == DoCompare \/ DoRender \/ DoGetLabels

SpecReport == InitReport /\ [][NextReport]_vars

(***************************************************************************)
(* Properties of the rendering and the labels, under SpecReport.           *)
(***************************************************************************)
Range(list) == {list[i] : i \in DOMAIN list}

\* The texts of the document lines of a printed output that start with mark.
KeyLines(printed, mark) ==
    LET at == SelectSeq(printed,
                        LAMBDA line : line.kind = "document" /\ Head(line.text) = mark)
    IN  [i \in DOMAIN at |-> SubSeq(at[i].text, 3, Len(at[i].text))]

Ascending(list) == \A i, j \in DOMAIN list : i < j => StrLess(list[i], list[j])

\* C12: two renderings of the Result of one comparison are identical, in
\* the compact and in the verbose mode and in the template data, whatever
\* order the maps are ranged over; each printed category lists its
\* identities in ascending byte order, and AddedList, DeletedList and
\* ModifiedList are the keys of the Result's maps in ascending byte order.
ThmC12_Determinism ==
    /\ Len(outputs) = 2 => outputs[1] = outputs[2]
    /\ \A n \in DOMAIN outputs :
        /\ outputs[n].data.AddedList = SortStrings(DOMAIN result.Added)
        /\ outputs[n].data.DeletedList = SortStrings(DOMAIN result.Deleted)
        /\ outputs[n].data.ModifiedList = SortStrings(DOMAIN result.Modified)
        /\ Ascending(outputs[n].data.AddedList)
        /\ Ascending(outputs[n].data.DeletedList)
        /\ Ascending(outputs[n].data.ModifiedList)
        /\ \A printed \in {outputs[n].lines, outputs[n].verbose} :
            /\ KeyLines(printed, "+") = SortStrings(DOMAIN result.Added)
            /\ KeyLines(printed, "-") = SortStrings(DOMAIN result.Deleted)
            /\ KeyLines(printed, "~") = SortStrings(DOMAIN result.Modified)

\* Two resources added, decoded in descending order, rendered twice.
WitC12_TwoAddedRenderedTwice ==
    /\ pc = "rendered twice"
    /\ oldDocs = <<>>
    /\ newDocs = <<Document(NameOnly(<<"c">>), <<>>), Document(NameOnly(<<"b">>), <<>>)>>
    /\ outputs[2].data.AddedList = << <<"b">>, <<"c">> >>
    /\ Len(outputs[2].verbose) = 3

Count(map) == Cardinality(DOMAIN map)

\* C14: with no addition, deletion or modification the labels are exactly
\* the no-changes label; otherwise they hold the additions label iff
\* something was added, the deletions label iff something was deleted, the
\* modifications label iff something was modified, and nothing else.
ThmC14_LabelSelection ==
    pc = "labelled" =>
        IF Count(result.Added) = 0 /\ Count(result.Deleted) = 0
           /\ Count(result.Modified) = 0
        THEN labels = <<cfg.WhenNoChanges>>
        ELSE /\ cfg.WhenHasAdditions \in Range(labels) <=> Count(result.Added) > 0
             /\ cfg.WhenHasDeletions \in Range(labels) <=> Count(result.Deleted) > 0
             /\ cfg.WhenHasModifications \in Range(labels)
                    <=> Count(result.Modified) > 0
             /\ cfg.WhenNoChanges \notin Range(labels)
             /\ Range(labels) \subseteq {cfg.WhenHasAdditions, cfg.WhenHasDeletions,
                                         cfg.WhenHasModifications}

\* One addition, one deletion and one modification: three labels.
WitC14_AllThreeLabels ==
    /\ pc = "labelled"
    /\ Count(result.Added) = 1
    /\ Count(result.Deleted) = 1
    /\ Count(result.Modified) = 1
    /\ Len(labels) = 3

\* C15: the compact summary is "<A> added, <D> deleted, <M> modified" and
\* the template summary "Plan: <A> to add, <D> to delete, <M> to modify"
\* with the sizes of the Result's maps at the time of rendering; Added,
\* Deleted and Modified of the template data are the lengths of the three
\* lists, and HasChanges holds iff one of them is not zero. Scenarios 2 and
\* 3 give "0 added, 1 deleted, 0 modified" and
\* "Plan: 1 to add, 0 to delete, 0 to modify".
ThmC15_SummariesInSync ==
    \A n \in DOMAIN outputs :
        LET data == outputs[n].data
            A == Itoa(Count(result.Added))
            D == Itoa(Count(result.Deleted))
            M == Itoa(Count(result.Modified))
        IN  /\ Split(outputs[n].compact, " ")
                 = <<A, <<"a", "d", "d", "e", "d", ",">>, D,
                     <<"d", "e", "l", "e", "t", "e", "d", ",">>, M,
                     <<"m", "o", "d", "i", "f", "i", "e", "d">>>>
            /\ Split(data.Summary, " ")
                 = <<<<"P", "l", "a", "n", ":">>, A, <<"t", "o">>,
                     <<"a", "d", "d", ",">>, D, <<"t", "o">>,
                     <<"d", "e", "l", "e", "t", "e", ",">>, M, <<"t", "o">>,
                     <<"m", "o", "d", "i", "f", "y">>>>
            /\ data.Added = Len(data.AddedList)
            /\ data.Deleted = Len(data.DeletedList)
            /\ data.Modified = Len(data.ModifiedList)
            /\ data.HasChanges
                 <=> (data.Added # 0 \/ data.Deleted # 0 \/ data.Modified # 0)
            /\ (oldDocs = <<Document(NameOnly(<<"a">>), <<>>)>> /\ newDocs = <<>>)
                 => outputs[n].compact
                      = <<"0", " ", "a", "d", "d", "e", "d", ",", " ", "1",
                          " ", "d", "e", "l", "e", "t", "e", "d", ",", " ",
                          "0", " ", "m", "o", "d", "i", "f", "i", "e", "d">>
            /\ (oldDocs = <<>> /\ newDocs = <<Document(NameOnly(<<"b">>), <<>>)>>)
                 => data.Summary
                      = <<"P", "l", "a", "n", ":", " ", "1", " ", "t", "o",
                          " ", "a", "d", "d", ",", " ", "0", " ", "t", "o",
                          " ", "d", "e", "l", "e", "t", "e", ",", " ", "0",
                          " ", "t", "o", " ", "m", "o", "d", "i", "f", "y">>

\* Scenario 2 rendered: one document deleted.
WitC15_Scenario2Rendered ==
    /\ pc = "rendered"
    /\ oldDocs = <<Document(NameOnly(<<"a">>), <<>>)>>
    /\ newDocs = <<>>
    /\ outputs[1].data.Deleted = 1
    /\ outputs[1].data.DeletedList = << <<"a">> >>

(***************************************************************************)
(* The command lines, files and configurations Run is started with.        *)
(***************************************************************************)
FileNames == {FileF, FileG}

\* --git-compare=main, --github-repo=o/r, a repository without an owner,
\* a token.
Main == <<"m", "a", "i", "n">>
OwnerRepo == <<"o", "/", "r">>
RepoOnly == <<"r">>
Secret == <<"s">>

\* The YAML streams a file can hold: nothing, one version or the other of
\* the resource a, a leading comment before it, a malformed document
\* after it.
Streams ==
    {<<>>, <<Section(Named(1))>>, <<Section(Named(2))>>,
     <<EmptySection, Section(Named(1))>>, <<Section(Named(1)), Malformed>>}

\* What git show <branch>:<file> does: it prints the file, or fails because
\* the file is not at the branch, the branch does not exist, or git cannot
\* be run. What os.ReadFile does: it reads the file or fails.
FileStates ==
    {[show |-> "ok", old |-> o, readable |-> TRUE, new |-> n] :
        o \in Streams, n \in Streams}
    \cup {[show |-> "ok", old |-> o, readable |-> FALSE, new |-> <<>>] :
        o \in Streams}
    \cup {[show |-> k, old |-> <<>>, readable |-> TRUE, new |-> n] :
        k \in {"absent", "no branch", "no git"}, n \in Streams}
    \cup {[show |-> k, old |-> <<>>, readable |-> FALSE, new |-> <<>>] :
        k \in {"absent", "no branch", "no git"}}

\* The worlds of a list of target files. With the files detected by
\* git diff --name-only <branch>, git runs and the branch exists; with the
\* file named on the command line neither is known.
GitWorlds(targetFiles, detected) ==
    LET used == {targetFiles[i] : i \in DOMAIN targetFiles}
    IN  {w \in [FileNames -> FileStates] :
            /\ \A f \in FileNames \ used : w[f] = NoFile
            /\ \A f \in used : detected => w[f].show \in {"ok", "absent"}}

\* The worlds of the normal mode: git is not asked.
FileWorlds ==
    {w \in [FileNames -> FileStates] :
        \A f \in FileNames : w[f].show = "ok" /\ w[f].old = <<>>}

\* Reporting as the parsing is explored with: none, a configuration file
\* with a comment and labels, the legacy label.
Reportings ==
    {NoOptions,
     [NoOptions EXCEPT !.Config = TRUE, !.PostComment = TRUE,
                       !.GithubRepo = OwnerRepo, !.GithubPR = 1],
     [NoOptions EXCEPT !.GithubLabel = TRUE,
                       !.GithubRepo = OwnerRepo, !.GithubPR = 1]}

Input(o, targetFiles, w, envToken) ==
    [opts |-> o, files |-> targetFiles, world |-> w, token |-> envToken]

\* --git-compare with the changed files detected, or with one file named.
GitInputs ==
    UNION {{Input([o EXCEPT !.GitCompare = Main], targetFiles, w, Secret) :
                o \in Reportings, w \in GitWorlds(targetFiles, TRUE)} :
           targetFiles \in {<<>>, <<FileF>>, <<FileF, FileG>>}}
    \cup {Input([o EXCEPT !.GitCompare = Main, !.File1 = FileF], <<FileF>>, w, Secret) :
            o \in Reportings, w \in GitWorlds(<<FileF>>, FALSE)}

\* Two files, or fewer than the two that are required.
FileInputs ==
    {Input([o EXCEPT !.File1 = FileF, !.File2 = FileG], <<>>, w, Secret) :
        o \in Reportings, w \in FileWorlds}
    \cup {Input([o EXCEPT !.File1 = file1], <<>>, [f \in FileNames |-> NoFile], Secret) :
            o \in Reportings, file1 \in {<<>>, FileF}}

\* Every combination of the reporting flags and of the token's two sources.
RunOptions ==
    [File1 : {FileF}, File2 : {FileG}, GitCompare : {<<>>},
     ShowCounts : BOOLEAN, Verbose : BOOLEAN,
     Config : BOOLEAN, PostComment : BOOLEAN, GithubLabel : BOOLEAN,
     GithubRepo : {<<>>, OwnerRepo, RepoOnly}, GithubPR : {0, 1},
     GithubToken : {<<>>, Secret},
     ChangesLabel : {ChangesLabel, <<>>}, NoChangesLabel : {NoChangesLabel}]

\* Two files without a difference, with a modified resource, with a deleted
\* one.
ReportWorlds ==
    {[f \in FileNames |->
        [NoFile EXCEPT !.new = IF f = FileF THEN <<Section(Named(1))>> ELSE n]] :
     n \in {<<Section(Named(1))>>, <<Section(Named(2))>>, <<>>}}

ReportInputs ==
    {Input(o, <<>>, w, envToken) :
        o \in RunOptions, w \in ReportWorlds, envToken \in {<<>>, Secret}}

RunInputs == GitInputs \cup FileInputs \cup ReportInputs

\* The configurations LoadConfig can return: the minimal configuration's
\* labels, with or without a repository, with no template, one that renders
\* or one that does not, the comment and the labels disabled or not.
RunConfigs ==
    {[base EXCEPT !.RepoFullName = repo, !.Template = template,
                  !.DisableComment = noComment, !.DisableLabel = noLabel] :
        base \in {MinimalLabels, [MinimalLabels EXCEPT !.WhenNoChanges = <<>>]},
        repo \in {<<>>, OwnerRepo}, template \in {"", "valid", "invalid"},
        noComment \in BOOLEAN, noLabel \in BOOLEAN}

InitRun ==
    /\ \E in \in RunInputs :
        /\ opts = in.opts
        /\ files = in.files
        /\ world = in.world
        /\ token = in.token
    /\ pc = "start"
    /\ oldDocs = <<>>
    /\ newDocs = <<>>
    /\ result = EmptyResult
    /\ swapped = EmptyResult
    /\ vOld = MapVal(<<>>)
    /\ vNew = MapVal(<<>>)
    /\ diffs = <<>>
    /\ vDone = FALSE
    /\ ReportIdle
    /\ GitIdle
    /\ PipeIdle
    /\ stdout = <<>>
    /\ comments = <<>>
    /\ calls = <<>>
    /\ err = ""
    /\ exit = 0

(***************************************************************************)
(* SpecRun: CompareCmd.Run and main, from the command line to the exit     *)
(* status.                                                                 *)
(***************************************************************************)
\* The repository the integration talks to: --github-repo, else the
\* configuration's.
Repo == IF opts.GithubRepo # <<>> THEN opts.GithubRepo ELSE cfg.RepoFullName

\* The token Run validates: --github-token, else GITHUB_TOKEN.
ValidatedToken == IF opts.GithubToken # <<>> THEN opts.GithubToken ELSE token

\* Run returns an error: main's FatalIfErrorf is next.
Fail(message) ==
    /\ err' = message
    /\ pc' = "failed"

\* Run, git comparison mode: the target files are parsed at the branch and
\* in the work tree.
DoParseGit ==
    /\ pc = "start"
    /\ opts.GitCompare # <<>>
    /\ LET parsed == ParseFilesWithSourceTracking(world, files, 1, <<>>, <<>>)
       IN  /\ oldDocs' = parsed.oldDocs
           /\ newDocs' = parsed.newDocs
           /\ IF parsed.err # ""
              THEN Fail("error parsing files")
              ELSE pc' = "parsed" /\ err' = err
    /\ UNCHANGED <<result, swapped, valueVars, reportVars, inputVars, gitVars,
                   stdout, comments, calls, exit, pipeVars>>

\* Run, normal mode: both files are required and parsed.
DoParseFiles ==
    /\ pc = "start"
    /\ opts.GitCompare = <<>>
    /\ IF opts.File1 = <<>> \/ opts.File2 = <<>>
       THEN /\ Fail("two files are required")
            /\ UNCHANGED <<oldDocs, newDocs>>
       ELSE LET parsed == ParseTwoFiles(world, opts.File1, opts.File2)
            IN  /\ oldDocs' = parsed.oldDocs
                /\ newDocs' = parsed.newDocs
                /\ IF parsed.err # ""
                   THEN Fail(parsed.err)
                   ELSE pc' = "parsed" /\ err' = err
    /\ UNCHANGED <<result, swapped, valueVars, reportVars, inputVars, gitVars,
                   stdout, comments, calls, exit, pipeVars>>

\* Run: the results are printed to the standard output unless a comment is
\* to be posted with a configuration file.
DoPrintStdout ==
    /\ pc = "compared"
    /\ IF ~opts.PostComment \/ ~opts.Config
       THEN \E addedOrder \in IterationOrders(result.Added),
               deletedOrder \in IterationOrders(result.Deleted),
               modifiedOrder \in IterationOrders(result.Modified) :
                stdout' = Append(stdout,
                    IF opts.ShowCounts
                    THEN <<Line(PrintSummaryCompact(result), "summary", Absent, Absent)>>
                    ELSE PrintResult(result, opts.Verbose,
                                     addedOrder, deletedOrder, modifiedOrder))
       ELSE stdout' = stdout
    /\ pc' = "printed"
    /\ UNCHANGED <<oldDocs, newDocs, result, swapped, valueVars, reportVars,
                   inputVars, gitVars, comments, calls, err, exit, pipeVars>>

\* handleConfigBasedIntegration going on without a pull request number.
DoLoadConfigUnchecked ==
    /\ pc = "printed"
    /\ opts.Config
    /\ \E loaded \in BOOLEAN, c \in RunConfigs :
        IF ~loaded
        THEN Fail("error loading config") /\ cfg' = cfg
        ELSE /\ cfg' = c
             /\ IF opts.GithubRepo = <<>> /\ c.RepoFullName = <<>>
                THEN Fail("repository not specified")
                ELSE IF ValidatedToken = <<>>
                THEN Fail("GitHub token not provided")
                ELSE pc' = "validated" /\ err' = err
    /\ UNCHANGED <<oldDocs, newDocs, result, swapped, valueVars, outputs, labels,
                   inputVars, gitVars, stdout, comments, calls, exit, pipeVars>>

\* handleConfigBasedIntegration up to the validated token: the
\* configuration is loaded, then the repository, the pull request number
\* and the token are required.
DoLoadConfig ==
    /\ pc = "printed"
    /\ opts.Config
    /\ \E loaded \in BOOLEAN, c \in RunConfigs :
        IF ~loaded
        THEN Fail("error loading config") /\ cfg' = cfg
        ELSE /\ cfg' = c
             /\ IF opts.GithubRepo = <<>> /\ c.RepoFullName = <<>>
                THEN Fail("repository not specified")
                ELSE IF opts.GithubPR = 0
                THEN Fail("PR number not specified")
                ELSE IF ValidatedToken = <<>>
                THEN Fail("GitHub token not provided")
                ELSE pc' = "validated" /\ err' = err
    /\ UNCHANGED <<oldDocs, newDocs, result, swapped, valueVars, outputs, labels,
                   inputVars, gitVars, stdout, comments, calls, exit, pipeVars>>

\* handleConfigBasedIntegration: the comment, if one is requested, not
\* disabled and has a template: the template is rendered, then
\* github.PostComment gets a client, parses the repository and calls the
\* API, which answers or fails. The body is the template's data.
DoPostComment ==
    /\ pc = "validated"
    /\ IF opts.PostComment /\ ~cfg.DisableComment /\ cfg.Template # ""
       THEN \E addedOrder \in IterationOrders(result.Added),
               deletedOrder \in IterationOrders(result.Deleted),
               modifiedOrder \in IterationOrders(result.Modified),
               answered \in BOOLEAN :
                LET details == IF opts.Verbose
                               THEN PrintResult(result, TRUE, addedOrder,
                                                deletedOrder, modifiedOrder)
                               ELSE <<>>
                    body == PrepareTemplateData(result, details, addedOrder,
                                                deletedOrder, modifiedOrder)
                IN  IF cfg.Template = "invalid"
                    THEN /\ Fail("error rendering template")
                         /\ UNCHANGED <<comments, calls>>
                    ELSE IF ~getClient(opts.GithubToken, token) \/ ~parseRepo(Repo)
                    THEN /\ Fail("error posting comment")
                         /\ UNCHANGED <<comments, calls>>
                    ELSE /\ calls' = Append(calls, "CreateComment")
                         /\ IF answered
                            THEN /\ comments' = Append(comments, body)
                                 /\ pc' = "commented"
                                 /\ err' = err
                            ELSE /\ Fail("error posting comment")
                                 /\ comments' = comments
       ELSE /\ pc' = "commented"
            /\ UNCHANGED <<comments, calls, err>>
    /\ UNCHANGED <<oldDocs, newDocs, result, swapped, valueVars, reportVars,
                   inputVars, gitVars, stdout, exit, pipeVars>>

\* The labels step with the error of github.AddLabels dropped.
DoAddLabelsIgnoringFailure ==
    /\ pc = "commented"
    /\ LET chosen == GetLabels(cfg, Cardinality(DOMAIN result.Added),
                               Cardinality(DOMAIN result.Deleted),
                               Cardinality(DOMAIN result.Modified))
       IN  IF ~cfg.DisableLabel /\ Len(chosen) > 0 /\ ValidLabels(chosen) # <<>>
           THEN \E answered \in BOOLEAN :
                   IF ~getClient(opts.GithubToken, token) \/ ~parseRepo(Repo)
                   THEN UNCHANGED <<labels, calls>>
                   ELSE /\ calls' = Append(calls, "AddLabelsToIssue")
                        /\ labels' = IF answered THEN ValidLabels(chosen) ELSE labels
           ELSE UNCHANGED <<labels, calls>>
    /\ pc' = "integrated"
    /\ UNCHANGED <<oldDocs, newDocs, result, swapped, valueVars, cfg, outputs,
                   inputVars, gitVars, stdout, comments, err, exit, pipeVars>>

\* The labels step skipped when the comment is disabled.
DoAddLabelsUnlessCommentDisabled ==
    /\ pc = "commented"
    /\ LET chosen == GetLabels(cfg, Cardinality(DOMAIN result.Added),
                               Cardinality(DOMAIN result.Deleted),
                               Cardinality(DOMAIN result.Modified))
       IN  IF /\ ~cfg.DisableLabel
              /\ ~cfg.DisableComment
              /\ Len(chosen) > 0
              /\ ValidLabels(chosen) # <<>>
           THEN \E answered \in BOOLEAN :
                   IF ~getClient(opts.GithubToken, token) \/ ~parseRepo(Repo)
                   THEN /\ Fail("error adding labels")
                        /\ UNCHANGED <<labels, calls>>
                   ELSE /\ calls' = Append(calls, "AddLabelsToIssue")
                        /\ IF answered
                           THEN /\ labels' = ValidLabels(chosen)
                                /\ pc' = "integrated"
                                /\ err' = err
                           ELSE /\ Fail("error adding labels")
                                /\ labels' = labels
           ELSE /\ pc' = "integrated"
                /\ UNCHANGED <<labels, calls, err>>
    /\ UNCHANGED <<oldDocs, newDocs, result, swapped, valueVars, cfg, outputs,
                   inputVars, gitVars, stdout, comments, exit, pipeVars>>

\* handleConfigBasedIntegration: the labels, unless disabled: GetLabels,
\* and if there are any, github.AddLabels drops the empty ones, gets a
\* client, parses the repository and calls the API.
DoAddLabels ==
    /\ pc = "commented"
    /\ LET chosen == GetLabels(cfg, Cardinality(DOMAIN result.Added),
                               Cardinality(DOMAIN result.Deleted),
                               Cardinality(DOMAIN result.Modified))
       IN  IF ~cfg.DisableLabel /\ Len(chosen) > 0 /\ ValidLabels(chosen) # <<>>
           THEN \E answered \in BOOLEAN :
                   IF ~getClient(opts.GithubToken, token) \/ ~parseRepo(Repo)
                   THEN /\ Fail("error adding labels")
                        /\ UNCHANGED <<labels, calls>>
                   ELSE /\ calls' = Append(calls, "AddLabelsToIssue")
                        /\ IF answered
                           THEN /\ labels' = ValidLabels(chosen)
                                /\ pc' = "integrated"
                                /\ err' = err
                           ELSE /\ Fail("error adding labels")
                                /\ labels' = labels
           ELSE /\ pc' = "integrated"
                /\ UNCHANGED <<labels, calls, err>>
    /\ UNCHANGED <<oldDocs, newDocs, result, swapped, valueVars, cfg, outputs,
                   inputVars, gitVars, stdout, comments, exit, pipeVars>>

\* applyGithubLabel picking the no-changes label whatever the Result.
LegacyLabelNoChanges(o, r) == o.NoChangesLabel

\* applyGithubLabel: the changes label if the Result has differences, else
\* the no-changes label.
LegacyLabel(o, r) == IF HasDifferences(r) THEN o.ChangesLabel ELSE o.NoChangesLabel

\* Run without a configuration file and with --github-label:
\* applyGithubLabel requires the repository, the pull request number and a
\* token, picks the label and hands it to github.AddLabel, which returns
\* at once for an empty label, else gets a client, parses the repository
\* and calls the API.
DoApplyGithubLabel ==
    /\ pc = "printed"
    /\ ~opts.Config
    /\ opts.GithubLabel
    /\ \E answered \in BOOLEAN :
        IF opts.GithubRepo = <<>> \/ opts.GithubPR = 0 \/ ValidatedToken = <<>>
        THEN /\ Fail("error applying GitHub label")
             /\ UNCHANGED <<labels, calls>>
        ELSE IF LegacyLabel(opts, result) = <<>>
        THEN /\ pc' = "integrated"
             /\ UNCHANGED <<labels, calls, err>>
        ELSE IF ~getClient(opts.GithubToken, token) \/ ~parseRepo(opts.GithubRepo)
        THEN /\ Fail("error applying GitHub label")
             /\ UNCHANGED <<labels, calls>>
        ELSE /\ calls' = Append(calls, "AddLabelsToIssue")
             /\ IF answered
                THEN /\ labels' = <<LegacyLabel(opts, result)>>
                     /\ pc' = "integrated"
                     /\ err' = err
                ELSE /\ Fail("error applying GitHub label")
                     /\ labels' = labels
    /\ UNCHANGED <<oldDocs, newDocs, result, swapped, valueVars, cfg, outputs,
                   inputVars, gitVars, stdout, comments, exit, pipeVars>>

\* Run's end with the status 0 whatever the Result.
DoExitZero ==
    /\ pc \in (IF ~opts.Config /\ ~opts.GithubLabel
               THEN {"printed", "integrated"} ELSE {"integrated"})
    /\ exit' = 0
    /\ pc' = "exited"
    /\ UNCHANGED <<oldDocs, newDocs, result, swapped, valueVars, reportVars,
                   inputVars, gitVars, stdout, comments, calls, err, pipeVars>>

\* Run's end: os.Exit(1) if the Result has differences, else Run returns
\* nil and main ends with status 0.
DoExit ==
    /\ pc \in (IF ~opts.Config /\ ~opts.GithubLabel
               THEN {"printed", "integrated"} ELSE {"integrated"})
    /\ exit' = IF HasDifferences(result) THEN 1 ELSE 0
    /\ pc' = "exited"
    /\ UNCHANGED <<oldDocs, newDocs, result, swapped, valueVars, reportVars,
                   inputVars, gitVars, stdout, comments, calls, err, pipeVars>>

\* main: ctx.FatalIfErrorf(err) on the error Run returned ends the process
\* with status 1.
DoFatal ==
    /\ pc = "failed"
    /\ exit' = 1
    /\ pc' = "exited"
    /\ UNCHANGED <<oldDocs, newDocs, result, swapped, valueVars, reportVars,
                   inputVars, gitVars, stdout, comments, calls, err, pipeVars>>

NextRun ==
    \/ DoParseGit
    \/ DoParseFiles
    \/ DoCompare
    \/ DoPrintStdout
    \/ DoLoadConfig
    \/ DoPostComment
    \/ DoAddLabels
    \/ DoApplyGithubLabel
    \/ DoExit
    \/ DoFatal

SpecRun == InitRun /\ [][NextRun]_vars

(***************************************************************************)
(* Properties of the run, under SpecRun.                                   *)
(***************************************************************************)
\* The errors Run returns before it has documents to compare.
ParseErrors ==
    {"error parsing files", "two files are required", "error parsing file1",
     "error parsing file2"}

\* The errors of handleConfigBasedIntegration before the labels.
CommentErrors ==
    {"error loading config", "repository not specified",
     "PR number not specified", "GitHub token not provided",
     "error rendering template", "error posting comment"}

\* The outputs the command line and the configuration ask for.
StdoutRequested == ~opts.PostComment \/ ~opts.Config
CommentRequested ==
    opts.Config /\ opts.PostComment /\ ~cfg.DisableComment /\ cfg.Template # ""
ChosenLabels ==
    ValidLabels(GetLabels(cfg, Cardinality(DOMAIN result.Added),
                          Cardinality(DOMAIN result.Deleted),
                          Cardinality(DOMAIN result.Modified)))
LabelsRequested ==
    \/ opts.Config /\ ~cfg.DisableLabel /\ ChosenLabels # <<>>
    \/ ~opts.Config /\ opts.GithubLabel /\ LegacyLabel(opts, result) # <<>>

CexC17_GitFailureReturned ==
    (/\ opts.GitCompare # <<>>
     /\ pc # "start"
     /\ \E i \in DOMAIN files : world[files[i]].show \in {"no branch", "no git"})
    => err = "error parsing files"

Holds(stream, section) == \E i \in DOMAIN stream : stream[i] = section

\* A document of an input that is decoded does not decode.
DecodeFails ==
    IF opts.GitCompare # <<>>
    THEN \E i \in DOMAIN files :
            \/ world[files[i]].show = "ok" /\ Holds(world[files[i]].old, Malformed)
            \/ world[files[i]].readable /\ Holds(world[files[i]].new, Malformed)
    ELSE /\ opts.File1 # <<>>
         /\ opts.File2 # <<>>
         /\ \E f \in {opts.File1, opts.File2} :
              world[f].readable /\ Holds(world[f].new, Malformed)

\* C18: when a document of an input does not decode, the parse step gives
\* an error and no document, and Run returns the error: the engine is
\* never called, nothing is printed, no comment is posted, no label is
\* added, no API is called, and the process ends with status 1.
ThmC18_ParseFailFast ==
    (DecodeFails /\ pc # "start") =>
        /\ pc \in {"failed", "exited"}
        /\ err \in ParseErrors
        /\ oldDocs = <<>>
        /\ newDocs = <<>>
        /\ result = EmptyResult
        /\ stdout = <<>>
        /\ comments = <<>>
        /\ labels = <<>>
        /\ calls = <<>>
        /\ pc = "exited" => exit = 1

\* The second file's second document is malformed, in git-compare mode with
\* a comment and labels requested.
WitC18_MalformedAfterDocuments ==
    /\ pc = "exited"
    /\ opts.GitCompare # <<>>
    /\ opts.Config
    /\ files = <<FileF, FileG>>
    /\ world[FileF].new = <<Section(Named(1))>>
    /\ world[FileG].new = <<Section(Named(1)), Malformed>>
    /\ err = "error parsing files"

\* The documents of a sequence that come from a file.
From(docs, file) == SelectSeq(docs, LAMBDA doc : doc.SourceFile = file)

\* C19: in git-compare mode, with every file readable and decodable, the
\* parse step gives no error; a file that is not at the branch has no
\* old-side document and all the documents of its current version on the
\* new side, with SourceFile set to the file; the other files have the
\* documents of both their versions.
ThmC19_NewFile ==
    (/\ opts.GitCompare # <<>>
     /\ pc # "start"
     /\ ~DecodeFails
     /\ \A i \in DOMAIN files : world[files[i]].readable)
    => /\ err \notin ParseErrors
       /\ \A i \in DOMAIN files :
            LET file == files[i]
            IN  /\ From(newDocs, file)
                     = Decode(CleanStream(world[file].new), file, <<>>).docs
                /\ world[file].show = "absent" => From(oldDocs, file) = <<>>
                /\ world[file].show = "ok" =>
                     From(oldDocs, file)
                       = Decode(CleanStream(world[file].old), file, <<>>).docs
       /\ Len(newDocs) <= 2 * Len(files)

\* A new file before a file that is at the branch: both are parsed.
WitC19_NewFileThenKnownFile ==
    /\ pc = "parsed"
    /\ files = <<FileF, FileG>>
    /\ world[FileF].show = "absent"
    /\ world[FileG].show = "ok"
    /\ oldDocs = <<Document(Named(1), FileG)>>
    /\ newDocs = <<Document(Named(1), FileF), Document(Named(2), FileG)>>

\* C20 as stated: with the token given by --github-token only, a valid
\* repository and a pull request number, the comment and the labels get as
\* far as the GitHub API call.
CexC20_TokenByFlag ==
    (/\ pc = "exited"
     /\ token = <<>>
     /\ opts.GithubToken # <<>>
     /\ opts.GithubPR # 0
     /\ parseRepo(opts.GithubRepo)
     /\ err \notin ParseErrors)
    => /\ (~opts.Config /\ opts.GithubLabel /\ LegacyLabel(opts, result) # <<>>) =>
            calls = <<"AddLabelsToIssue">>
       /\ (CommentRequested /\ cfg.Template = "valid") =>
            Head(calls) = "CreateComment"

Overwrites(docs, i, j) ==
    /\ i < j
    /\ RawKey(docs, i) = RawKey(docs, j)
    /\ docs[i].SourceFile = docs[j].SourceFile
    /\ \A l \in (j + 1)..Len(docs) :
          ~(/\ RawKey(docs, l) = RawKey(docs, j)
            /\ docs[l].SourceFile = docs[j].SourceFile)

\* C23: when two documents of one set have the same raw identity and the
\* same source file (or none), the set's identity mapping has one entry for
\* the identity, holding the last such document; the mapping has fewer
\* entries than the set has documents, the earlier document is in no
\* category of the Result, and Compare gives a Result all the same.
ThmC23_LaterDocumentWins ==
    pc = "compared" =>
        \A docs \in {oldDocs, newDocs} :
            \A i, j \in 1..Len(docs) :
                Overwrites(docs, i, j) =>
                    LET docMap == makeDocMap(docs)
                        k == DocKey(docs, j)
                    IN  /\ DocKey(docs, i) = k
                        /\ k \in DOMAIN docMap
                        /\ docMap[k] = docs[j]
                        /\ Cardinality(DOMAIN docMap) < Len(docs)
                        /\ k \in DOMAIN result.Added => result.Added[k] = docs[j]
                        /\ k \in DOMAIN result.Deleted => result.Deleted[k] = docs[j]

\* The old set holds the resource "a" of one file twice, with value 1 then
\* 2, and the new set is empty: the second one is reported deleted.
WitC23_SecondOfTwoDeleted ==
    /\ pc = "compared"
    /\ oldDocs = <<Document(Named(1), FileF), Document(Named(2), FileF)>>
    /\ newDocs = <<>>
    /\ DOMAIN result.Deleted = {DocKey(oldDocs, 2)}
    /\ result.Deleted[DocKey(oldDocs, 2)] = Document(Named(2), FileF)

(***************************************************************************)
(* SpecClean: cleanYAMLContent on contents of up to MaxLines lines, and on *)
(* its own result.                                                         *)
(***************************************************************************)
\* Lines that are skipped while leading (blank, comment, separator, with
\* and without white space around) and lines that are not.
LinePool ==
    {<<>>, <<" ">>, <<"#">>, <<" ", "#", "a">>, <<"-", "-", "-">>,
     <<" ", "-", "-", "-", "\r">>, <<"a">>, <<" ", "a", " ">>, <<"-", "-">>,
     <<"-", "-", "-", "a">>}

\* The contents: no byte, or up to MaxLines lines joined by "\n".
Contents ==
    {<<>>} \cup UNION {{Join(lines, "\n") : lines \in [1..n -> LinePool]} : n \in 1..MaxLines}

InitClean ==
    /\ rawContent \in Contents
    /\ cleaned = <<>>
    /\ output = [failed |-> FALSE, bytes |-> <<>>]
    /\ disk = {}
    /\ yamlFiles = <<>>
    /\ tmpOld = NoTemp
    /\ tmpNew = NoTemp
    /\ fileIndex = 0
    /\ pc = "start"
    /\ oldDocs = <<>>
    /\ newDocs = <<>>
    /\ result = EmptyResult
    /\ swapped = EmptyResult
    /\ vOld = MapVal(<<>>)
    /\ vNew = MapVal(<<>>)
    /\ diffs = <<>>
    /\ vDone = FALSE
    /\ ReportIdle
    /\ RunIdle
    /\ PipeIdle

\* cleanedOld := cleanYAMLContent(output)
DoClean ==
    /\ pc = "start"
    /\ cleaned' = cleanYAMLContent(rawContent)
    /\ pc' = "cleaned"
    /\ UNCHANGED <<oldDocs, newDocs, result, swapped, valueVars, reportVars,
                   inputVars, runVars, rawContent, output, disk, yamlFiles,
                   tmpOld, tmpNew, fileIndex, pipeVars>>

\* cleanYAMLContent on what it returned.
DoCleanAgain ==
    /\ pc = "cleaned"
    /\ cleaned' = cleanYAMLContent(cleaned)
    /\ pc' = "cleaned twice"
    /\ UNCHANGED <<oldDocs, newDocs, result, swapped, valueVars, reportVars,
                   inputVars, runVars, rawContent, output, disk, yamlFiles,
                   tmpOld, tmpNew, fileIndex, pipeVars>>

NextClean == DoClean \/ DoCleanAgain

SpecClean == InitClean /\ [][NextClean]_vars

\* A line of the leading run: blank, a comment or a separator once the
\* white space around it is taken off.
Leading(line) ==
    LET trimmed == TrimSpace(line)
    IN  trimmed = <<>> \/ Head(trimmed) = "#" \/ trimmed = <<"-", "-", "-">>

\* The lines of a content, and the index of the first one that is not of
\* the leading run (one past the last line if there is none).
LinesOf(c) == Split(c, "\n")
FirstKept(c) ==
    LET other == {i \in 1..Len(LinesOf(c)) : ~Leading(LinesOf(c)[i])}
    IN  IF other = {} THEN Len(LinesOf(c)) + 1
        ELSE CHOOSE i \in other : \A j \in other : i <= j

\* C24: cleanYAMLContent returns the lines of the content from the first
\* line that is not blank, a comment or a separator (after trimming) to the
\* last, unchanged and in order, joined by "\n"; it returns no byte if
\* there is no such line; and applied to its own result it returns it
\* unchanged.
ThmC24_LeadingRunRemoved ==
    /\ pc \in {"cleaned", "cleaned twice"} =>
         cleaned = IF FirstKept(rawContent) > Len(LinesOf(rawContent)) THEN <<>>
                   ELSE Join(SubSeq(LinesOf(rawContent), FirstKept(rawContent),
                                    Len(LinesOf(rawContent))), "\n")
    /\ pc = "cleaned twice" => cleaned = cleanYAMLContent(rawContent)

\* A comment, a line, a comment: the first goes, the other two stay.
WitC24_LaterCommentKept ==
    /\ pc = "cleaned twice"
    /\ rawContent = Join(<<<<"#">>, <<"a">>, <<" ", "#", "a">>>>, "\n")
    /\ cleaned = <<"a", "\n", " ", "#", "a">>

(***************************************************************************)
(* SpecChanged: GetChangedYAMLFiles on the output of git diff and the      *)
(* files of the work tree.                                                 *)
(***************************************************************************)
\* File names: two YAML files, a text file, a YAML file whose name starts
\* with a space, a file named yaml.
NamePool ==
    {<<"a", ".", "y", "a", "m", "l">>, <<"b", ".", "y", "m", "l">>,
     <<"c", ".", "t", "x", "t">>, <<" ", "a", ".", "y", "a", "m", "l">>,
     <<"y", "a", "m", "l">>}

\* What git lists: up to MaxListed names, each once.
Listings ==
    UNION {{l \in [1..n -> NamePool] : \A i, j \in 1..n : i # j => l[i] # l[j]} :
           n \in 0..MaxListed}

\* git's output: one line per name, each ended by "\n".
RECURSIVE DiffOutput(_)
DiffOutput(listed) ==
    IF listed = <<>> THEN <<>>
    ELSE Head(listed) \o <<"\n">> \o DiffOutput(Tail(listed))

InitChanged ==
    /\ \E failed \in BOOLEAN, listed \in Listings :
          output = [failed |-> failed,
                    bytes |-> IF failed THEN <<>> ELSE DiffOutput(listed)]
    /\ disk \in SUBSET NamePool
    /\ yamlFiles = <<>>
    /\ tmpOld = NoTemp
    /\ tmpNew = NoTemp
    /\ fileIndex = 0
    /\ rawContent = <<>>
    /\ cleaned = <<>>
    /\ pc = "start"
    /\ oldDocs = <<>>
    /\ newDocs = <<>>
    /\ result = EmptyResult
    /\ swapped = EmptyResult
    /\ vOld = MapVal(<<>>)
    /\ vNew = MapVal(<<>>)
    /\ diffs = <<>>
    /\ vDone = FALSE
    /\ ReportIdle
    /\ RunIdle
    /\ PipeIdle

\* targetFiles, err = git.GetChangedYAMLFiles(c.GitCompare)
DoGetChangedYAMLFiles ==
    /\ pc = "start"
    /\ LET changed == GetChangedYAMLFiles(output, disk)
       IN  /\ yamlFiles' = changed.files
           /\ err' = changed.err
    /\ pc' = "listed"
    /\ UNCHANGED <<oldDocs, newDocs, result, swapped, valueVars, reportVars,
                   inputVars, stdout, comments, calls, exit, rawContent,
                   cleaned, output, disk, tmpOld, tmpNew, fileIndex, pipeVars>>

\* Found %d changed YAML file(s): Run goes on with the list, or returns
\* the error.
DoUseChanged ==
    /\ pc = "listed"
    /\ pc' = IF err = "" THEN "detected" ELSE "failed"
    /\ files' = yamlFiles
    /\ UNCHANGED <<oldDocs, newDocs, result, swapped, valueVars, reportVars,
                   opts, world, token, runVars, gitVars, pipeVars>>

NextChanged == DoGetChangedYAMLFiles \/ DoUseChanged

SpecChanged == InitChanged /\ [][NextChanged]_vars

\* The names git listed: the lines of its output.
Listed == SelectSeq(Split(output.bytes, "\n"), LAMBDA line : line # <<>>)

IsYAMLName(name) ==
    HasSuffix(name, <<".", "y", "a", "m", "l">>) \/ HasSuffix(name, <<".", "y", "m", "l">>)

\* C25 as stated: GetChangedYAMLFiles returns, in the order of git's
\* output, exactly the listed names that end in .yaml or .yml and exist in
\* the work tree, and an error with no list when git diff fails.
CexC25_ListedYAMLFilesThatExist ==
    pc = "listed" =>
        IF output.failed THEN err # "" /\ yamlFiles = <<>>
        ELSE /\ err = ""
             /\ yamlFiles = SelectSeq(Listed, LAMBDA name : IsYAMLName(name) /\ name \in disk)

(***************************************************************************)
(* SpecCapture: the capture of the verbose output of Run, main.go 133-149. *)
(* A write to a pipe that is full waits for a reader; the pipe is read     *)
(* only after Print(true) has returned and the pipe is closed.             *)
(***************************************************************************)
\* Nothing on the old side: every document of the new side is printed as
\* added.
InitCapture ==
    /\ oldDocs = <<>>
    /\ newDocs \in ReportSeqs
    /\ result = EmptyResult
    /\ swapped = EmptyResult
    /\ pc = "parsed"
    /\ vOld = MapVal(<<>>)
    /\ vNew = MapVal(<<>>)
    /\ diffs = <<>>
    /\ vDone = FALSE
    /\ ReportIdle
    /\ opts \in {NoOptions, [NoOptions EXCEPT !.Verbose = TRUE]}
    /\ files = <<>>
    /\ world = <<>>
    /\ token = <<>>
    /\ stdout = <<>>
    /\ comments = <<>>
    /\ calls = <<>>
    /\ err = ""
    /\ exit = 0
    /\ GitIdle
    /\ PipeIdle

\* if c.Verbose: r, w, _ := os.Pipe(); os.Stdout = w; result.Print(true)
\* is entered with all its writes to make. Without --verbose the step is
\* passed.
DoOpenPipe ==
    /\ pc = "compared"
    /\ IF opts.Verbose
       THEN \E addedOrder \in IterationOrders(result.Added),
               deletedOrder \in IterationOrders(result.Deleted),
               modifiedOrder \in IterationOrders(result.Modified) :
                /\ pending' = PrintResult(result, TRUE, addedOrder,
                                          deletedOrder, modifiedOrder)
                /\ pc' = "printing"
       ELSE /\ pc' = "captured"
            /\ pending' = pending
    /\ UNCHANGED <<oldDocs, newDocs, result, swapped, valueVars, reportVars,
                   inputVars, runVars, gitVars, pipe, detailsBuf>>

\* One write of Print(true) to os.Stdout, which is the pipe: it returns
\* when the pipe has room for it.
DoWrite ==
    /\ pc = "printing"
    /\ pending # <<>>
    /\ Len(pipe) < PipeCapacity
    /\ pipe' = Append(pipe, Head(pending))
    /\ pending' = Tail(pending)
    /\ UNCHANGED <<engineVars, valueVars, reportVars, inputVars, runVars,
                   gitVars, detailsBuf>>

\* Print(true) has returned: w.Close(); os.Stdout = oldStdout
DoClosePipe ==
    /\ pc = "printing"
    /\ pending = <<>>
    /\ pc' = "closed"
    /\ UNCHANGED <<oldDocs, newDocs, result, swapped, valueVars, reportVars,
                   inputVars, runVars, gitVars, pipeVars>>

\* buf.ReadFrom(r); detailsBuf = *buf
DoReadFrom ==
    /\ pc = "closed"
    /\ detailsBuf' = pipe
    /\ pipe' = <<>>
    /\ pc' = "captured"
    /\ UNCHANGED <<oldDocs, newDocs, result, swapped, valueVars, reportVars,
                   inputVars, runVars, gitVars, pending>>

NextCapture ==
    \/ DoCompare
    \/ DoOpenPipe
    \/ DoWrite
    \/ DoClosePipe
    \/ DoReadFrom

\* Run is one goroutine: it takes its next step whenever it has one.
SpecCapture ==
    /\ InitCapture
    /\ [][NextCapture]_vars
    /\ WF_pc(DoCompare)
    /\ WF_pc(DoOpenPipe)
    /\ WF_pipe(DoWrite)
    /\ WF_pc(DoClosePipe)
    /\ WF_pc(DoReadFrom)

\* C26 as stated: with --verbose the capture always completes: Run
\* eventually passes the capture step, whatever the size of the verbose
\* output.
CexC26_CaptureCompletes == <>(pc = "captured")

\* The errors of the checks handleConfigBasedIntegration makes first.
PreconditionErrors ==
    {"error loading config", "repository not specified",
     "PR number not specified", "GitHub token not provided"}

\* C27: in handleConfigBasedIntegration the checks come before every side
\* effect. Without a repository, a pull request number or a token, and
\* when the configuration cannot be loaded, no API call is made, no comment
\* is posted and no label is added, and the run ends with the error of the
\* check. The labels are attempted only after the comment step: the
\* AddLabelsToIssue call is never before the CreateComment call, and when
\* it is made the comment has been posted if one was requested and none
\* was attempted otherwise.
ThmC27_ChecksBeforeEffects ==
    opts.Config =>
        /\ (\/ opts.GithubPR = 0
            \/ ValidatedToken = <<>>
            \/ err = "error loading config"
            \/ (pc \notin {"start", "parsed", "compared", "printed"} /\ Repo = <<>>))
           => /\ calls = <<>>
              /\ comments = <<>>
              /\ labels = <<>>
              /\ pc = "exited" => err \in ParseErrors \cup PreconditionErrors
        /\ err \in PreconditionErrors =>
             calls = <<>> /\ comments = <<>> /\ labels = <<>>
        /\ calls \in {<<>>, <<"CreateComment">>, <<"AddLabelsToIssue">>,
                      <<"CreateComment", "AddLabelsToIssue">>}
        /\ ("AddLabelsToIssue" \in Range(calls) \/ err = "error adding labels") =>
             IF CommentRequested
             THEN Len(comments) = 1 /\ Head(calls) = "CreateComment"
             ELSE comments = <<>> /\ "CreateComment" \notin Range(calls)

\* --config and --post-comment without --github-pr, with a token and a
\* repository: the run ends with the error and nothing was sent.
WitC27_NoPullRequestNumber ==
    /\ pc = "exited"
    /\ opts.Config
    /\ opts.PostComment
    /\ opts.GithubPR = 0
    /\ opts.GithubRepo = OwnerRepo
    /\ token = Secret
    /\ cfg.Template = "valid"
    /\ err = "PR number not specified"
    /\ calls = <<>>

(***************************************************************************)
(* git.CombineFilesForComparison: the changed files' old versions are      *)
(* gathered in one temporary file and their current versions in another.   *)
(* world gives, per file, whether git show <branch>:<file> succeeds and    *)
(* what it prints, and whether the file can be read and what it holds.     *)
(* os.CreateTemp and a write to a temporary file succeed or fail; closing  *)
(* and removing a file the function has just created succeed.              *)
(***************************************************************************)
\* The contents of a file's version: a comment only, a line without its
\* newline, a line with it.
CombineContents == {<<"#">>, <<"a">>, <<"a", "\n">>}

CombineFileStates ==
    [show : BOOLEAN, old : CombineContents,
     readable : BOOLEAN, new : CombineContents]

CombineFileLists == {<<>>, <<FileF>>, <<FileF, FileG>>}

\* os.CreateTemp, (*os.File).Close, os.Remove.
CreatedTemp == [created |-> TRUE, open |-> TRUE, exists |-> TRUE, data |-> <<>>]
CloseTemp(tmp) == [tmp EXCEPT !.open = FALSE]
RemoveTemp(tmp) == [tmp EXCEPT !.exists = FALSE]

\* The writes of one version to a temporary file: the separator when the
\* file is not the first, the content, and a newline when the content does
\* not end with one. Nothing is written for an empty content.
WriteSection(tmp, i, content) ==
    IF content = <<>> THEN tmp
    ELSE [tmp EXCEPT !.data =
             @ \o (IF i > 1 THEN <<"-", "-", "-", "\n">> ELSE <<>>)
               \o content
               \o (IF content[Len(content)] # "\n" THEN <<"\n">> ELSE <<>>)]

InitCombine ==
    /\ files \in CombineFileLists
    /\ world \in [Range(files) -> CombineFileStates]
    /\ opts = NoOptions
    /\ token = <<>>
    /\ stdout = <<>>
    /\ comments = <<>>
    /\ calls = <<>>
    /\ err = ""
    /\ exit = 0
    /\ pc = "start"
    /\ oldDocs = <<>>
    /\ newDocs = <<>>
    /\ result = EmptyResult
    /\ swapped = EmptyResult
    /\ vOld = MapVal(<<>>)
    /\ vNew = MapVal(<<>>)
    /\ diffs = <<>>
    /\ vDone = FALSE
    /\ ReportIdle
    /\ GitIdle
    /\ PipeIdle

\* The two os.CreateTemp calls as the code has them, except that the old
\* file is left behind when the second call fails.
DoCreateTempLeavingOld ==
    /\ pc = "start"
    /\ \E oldOk \in BOOLEAN, newOk \in BOOLEAN :
          IF ~oldOk
          THEN /\ err' = "failed to create temp file"
               /\ pc' = "failed"
               /\ UNCHANGED <<tmpOld, tmpNew, fileIndex>>
          ELSE IF ~newOk
          THEN /\ tmpOld' = CloseTemp(CreatedTemp)
               /\ err' = "failed to create temp file"
               /\ pc' = "failed"
               /\ UNCHANGED <<tmpNew, fileIndex>>
          ELSE /\ tmpOld' = CreatedTemp
               /\ tmpNew' = CreatedTemp
               /\ fileIndex' = 1
               /\ pc' = "combining"
               /\ UNCHANGED err
    /\ UNCHANGED <<oldDocs, newDocs, result, swapped, valueVars, reportVars,
                   inputVars, stdout, comments, calls, exit, rawContent,
                   cleaned, output, disk, yamlFiles, pipeVars>>

\* tmpOld, err := os.CreateTemp("", "yamlcmt-old-*.yaml") and the same for
\* tmpNew: the first failure returns with nothing created, the second
\* closes and removes the old file before it returns.
DoCreateTemp ==
    /\ pc = "start"
    /\ \E oldOk \in BOOLEAN, newOk \in BOOLEAN :
          IF ~oldOk
          THEN /\ err' = "failed to create temp file"
               /\ pc' = "failed"
               /\ UNCHANGED <<tmpOld, tmpNew, fileIndex>>
          ELSE IF ~newOk
          THEN /\ tmpOld' = RemoveTemp(CloseTemp(CreatedTemp))
               /\ err' = "failed to create temp file"
               /\ pc' = "failed"
               /\ UNCHANGED <<tmpNew, fileIndex>>
          ELSE /\ tmpOld' = CreatedTemp
               /\ tmpNew' = CreatedTemp
               /\ fileIndex' = 1
               /\ pc' = "combining"
               /\ UNCHANGED err
    /\ UNCHANGED <<oldDocs, newDocs, result, swapped, valueVars, reportVars,
                   inputVars, stdout, comments, calls, exit, rawContent,
                   cleaned, output, disk, yamlFiles, pipeVars>>

\* One turn of `for i, file := range files`: the old version is written
\* when git show succeeded and its cleaned content is not empty, the file is
\* read, and its cleaned content is written when it is not empty. A failed
\* write or read closes both files, removes both and returns the error.
DoCombineFile ==
    /\ pc = "combining"
    /\ fileIndex <= Len(files)
    /\ LET file == world[files[fileIndex]]
           cleanedOld == IF file.show THEN cleanYAMLContent(file.old) ELSE <<>>
           cleanedNew == cleanYAMLContent(file.new)
           oldWritten == WriteSection(tmpOld, fileIndex, cleanedOld)
           Abandon(old, e) ==
               /\ tmpOld' = RemoveTemp(CloseTemp(old))
               /\ tmpNew' = RemoveTemp(CloseTemp(tmpNew))
               /\ err' = e
               /\ pc' = "failed"
               /\ UNCHANGED fileIndex
       IN  \E writeOldOk \in BOOLEAN, writeNewOk \in BOOLEAN :
              IF cleanedOld # <<>> /\ ~writeOldOk
              THEN Abandon(tmpOld, "failed to write old file content")
              ELSE IF ~file.readable
              THEN Abandon(oldWritten, "failed to read")
              ELSE IF cleanedNew # <<>> /\ ~writeNewOk
              THEN Abandon(oldWritten, "failed to write new file content")
              ELSE /\ tmpOld' = oldWritten
                   /\ tmpNew' = WriteSection(tmpNew, fileIndex, cleanedNew)
                   /\ fileIndex' = fileIndex + 1
                   /\ UNCHANGED <<pc, err>>
    /\ UNCHANGED <<oldDocs, newDocs, result, swapped, valueVars, reportVars,
                   inputVars, stdout, comments, calls, exit, rawContent,
                   cleaned, output, disk, yamlFiles, pipeVars>>

\* After the loop: tmpOld.Close(), tmpNew.Close(), and the return of the two
\* paths with the cleanup function.
DoReturnCombined ==
    /\ pc = "combining"
    /\ fileIndex > Len(files)
    /\ tmpOld' = CloseTemp(tmpOld)
    /\ tmpNew' = CloseTemp(tmpNew)
    /\ pc' = "combined"
    /\ UNCHANGED <<oldDocs, newDocs, result, swapped, valueVars, reportVars,
                   inputVars, runVars, rawContent, cleaned, output, disk,
                   yamlFiles, fileIndex, pipeVars>>

\* cleanup(): os.Remove(tmpOldPath), os.Remove(tmpNewPath).
DoCleanup ==
    /\ pc = "combined"
    /\ tmpOld' = RemoveTemp(tmpOld)
    /\ tmpNew' = RemoveTemp(tmpNew)
    /\ pc' = "cleaned up"
    /\ UNCHANGED <<oldDocs, newDocs, result, swapped, valueVars, reportVars,
                   inputVars, runVars, rawContent, cleaned, output, disk,
                   yamlFiles, fileIndex, pipeVars>>

NextCombine == DoCreateTemp \/ DoCombineFile \/ DoReturnCombined \/ DoCleanup

SpecCombine == InitCombine /\ [][NextCombine]_vars

\* A temporary file is leaked when it exists, or is held open, although it
\* should not be any more.
Gone(tmp) == ~tmp.exists /\ ~tmp.open
Kept(tmp) == tmp.created /\ tmp.exists /\ ~tmp.open

\* C28: CombineFilesForComparison does not leak its temporary files. After
\* an error return every temporary file that was created is closed and
\* removed; after a successful return both files were created, are closed
\* and exist for as long as cleanup has not been called; after cleanup
\* neither exists. While the function runs, both files are open.
ThmC28_NoTempFileLeak ==
    /\ pc = "failed" => Gone(tmpOld) /\ Gone(tmpNew)
    /\ pc = "combining" => /\ tmpOld.exists /\ tmpOld.open
                           /\ tmpNew.exists /\ tmpNew.open
    /\ pc = "combined" => Kept(tmpOld) /\ Kept(tmpNew) /\ err = ""
    /\ pc = "cleaned up" => Gone(tmpOld) /\ Gone(tmpNew)

\* The second file cannot be read after the first file's two versions were
\* written: both temporary files were created, and both are closed and gone.
WitC28_ReadFailsAtSecondFile ==
    /\ pc = "failed"
    /\ err = "failed to read"
    /\ fileIndex = 2
    /\ tmpOld.created /\ tmpOld.data # <<>> /\ Gone(tmpOld)
    /\ tmpNew.created /\ tmpNew.data # <<>> /\ Gone(tmpNew)

====
